---- MODULE Spec2Model ----
(***************************************************************************)
(* Background picker of the Divergences Plus plugin: image-source          *)
(* resolution (utils/image-utils.ts, loadImageItems), the picker's cache   *)
(* and its token-guarded incremental tile rendering                        *)
(* (ui/background-picker-overlay.ts).                                      *)
(*                                                                         *)
(* Strings are sequences of atoms.  An atom is a TLA+ string standing for  *)
(* one character (" ", "/", ".", "|", a letter) or for an indivisible run  *)
(* of ordinary characters ("png", "http:").  Every string operation of the *)
(* code (trim, split, join, startsWith, replace of leading or trailing     *)
(* slashes, template concatenation) is computed on these sequences.        *)
(***************************************************************************)
EXTENDS Integers, Sequences, FiniteSets, TLC

VARIABLES
    settings,       \* host.settings: serverBaseUrl, imageFolderPath, useRemoteIndex
    vaultFiles,     \* paths of the files (TFile) currently in the vault
    hostBasePath,   \* adapter.getBasePath(), "" when the host has none
    overlayOpen,    \* overlayEl/dialogEl/gridEl/statusEl/infoEl are non-null
    grid,           \* dataset.relativePath of the tiles in gridEl, in DOM order
    statusText,     \* statusEl.textContent
    itemCount,      \* BackgroundPickerOverlay.itemCount
    renderToken,    \* BackgroundPickerOverlay.renderToken
    renderQueue,    \* BackgroundPickerOverlay.renderQueue
    cachedKey,      \* BackgroundPickerOverlay.cachedKey
    cachedItems,    \* BackgroundPickerOverlay.cachedItems
    cachedError,    \* BackgroundPickerOverlay.cachedError
    idleCallbacks,  \* pending renderTileBatch callbacks, by the token current when scheduled
    lookup,         \* what the last step did, when it was a renderGrid or a callback
    passItems,      \* the items of the most recently started render pass
    rs              \* one run of loadImageItems (SpecResolve); two key inputs (SpecKey)

vars == <<settings, vaultFiles, hostBasePath, overlayOpen, grid, statusText, itemCount,
          renderToken, renderQueue, cachedKey, cachedItems, cachedError,
          idleCallbacks, lookup, passItems, rs>>

pickerVars == <<overlayOpen, grid, statusText, itemCount, renderToken, renderQueue,
                cachedKey, cachedItems, cachedError, idleCallbacks, lookup, passItems>>

-----------------------------------------------------------------------------
(* Bounds of the model.                                                    *)

\* renderToken is capped: no action advances it beyond MaxToken.
MaxToken == 3

\* Number of image files in the large folder "w" (more than one batch).
BigFolderSize == 25

\* The largest number of tiles a layout is computed for.
MaxCount == 6

-----------------------------------------------------------------------------
(* Strings.                                                                *)

Letters == <<"a", "b", "c", "d", "e", "f", "g", "h", "i", "j", "k", "l", "m",
             "n", "o", "p", "q", "r", "s", "t", "u", "v", "w", "x", "y", "z">>

RECURSIVE dropWhileHead(_, _)
dropWhileHead(s, atom) ==
    IF s # <<>> /\ Head(s) = atom THEN dropWhileHead(Tail(s), atom) ELSE s

RECURSIVE dropWhileLast(_, _)
dropWhileLast(s, atom) ==
    IF s # <<>> /\ s[Len(s)] = atom
    THEN dropWhileLast(SubSeq(s, 1, Len(s) - 1), atom)
    ELSE s

\* String.prototype.trim
trim(s) == dropWhileLast(dropWhileHead(s, " "), " ")

\* String.prototype.startsWith
startsWith(s, prefix) ==
    Len(prefix) <= Len(s) /\ SubSeq(s, 1, Len(prefix)) = prefix

\* String.prototype.slice(n)
sliceFrom(s, n) == SubSeq(s, n + 1, Len(s))

\* String.prototype.split(sep) for a one-atom separator
RECURSIVE split(_, _)
split(s, sep) ==
    IF \A i \in 1..Len(s) : s[i] # sep
    THEN <<s>>
    ELSE LET i == CHOOSE k \in 1..Len(s) : s[k] = sep /\ \A j \in 1..(k - 1) : s[j] # sep
         IN  <<SubSeq(s, 1, i - 1)>> \o split(SubSeq(s, i + 1, Len(s)), sep)

\* Array.prototype.join(sep)
RECURSIVE join(_, _)
join(parts, sep) ==
    IF parts = <<>> THEN <<>>
    ELSE IF Len(parts) = 1 THEN parts[1]
    ELSE parts[1] \o <<sep>> \o join(Tail(parts), sep)

\* String.prototype.toLowerCase, atom by atom
lowerAtom(atom) ==
    CASE atom = "PNG" -> "png"
      [] atom = "JPG" -> "jpg"
      [] OTHER -> atom

toLowerCase(s) == [i \in 1..Len(s) |-> lowerAtom(s[i])]

\* Position of an atom in the collation order used by localeCompare.
LetterRank ==
    [atom \in {Letters[k] : k \in 1..Len(Letters)} |->
        CHOOSE k \in 1..Len(Letters) : Letters[k] = atom]

Collate(atom) == IF atom \in DOMAIN LetterRank THEN LetterRank[atom] ELSE 0

\* a.localeCompare(b) < 0, = 0, > 0 as -1, 0, 1
RECURSIVE localeCompare(_, _)
localeCompare(a, b) ==
    IF a = <<>> /\ b = <<>> THEN 0
    ELSE IF a = <<>> THEN -1
    ELSE IF b = <<>> THEN 1
    ELSE IF Collate(Head(a)) < Collate(Head(b)) THEN -1
    ELSE IF Collate(Head(a)) > Collate(Head(b)) THEN 1
    ELSE localeCompare(Tail(a), Tail(b))

\* obsidian normalizePath: runs of "/" and "\" become one "/", leading and
\* trailing "/" are removed, the empty result is "/".
RECURSIVE collapseSlashes(_)
collapseSlashes(s) ==
    IF s = <<>> THEN <<>>
    ELSE LET c == IF Head(s) = "\\" THEN "/" ELSE Head(s)
             rest == collapseSlashes(Tail(s))
         IN  IF c = "/" /\ rest # <<>> /\ Head(rest) = "/" THEN rest ELSE <<c>> \o rest

normalizePath(s) ==
    LET t == dropWhileLast(dropWhileHead(collapseSlashes(s), "/"), "/")
    IN  IF t = <<>> THEN <<"/">> ELSE t

-----------------------------------------------------------------------------
(* The vault: app.vault as the host's file interface.                      *)

\* The folders (TFolder) of the vault; they exist whatever files they hold.
VaultFolders == {<<"w">>, <<"o">>, <<"w", "/", "art">>}

\* path of a file or folder -> path of its parent folder
parentPath(path) ==
    LET parts == split(path, "/")
    IN  join(SubSeq(parts, 1, Len(parts) - 1), "/")

\* TFile.name
fileName(path) ==
    LET parts == split(path, "/") IN parts[Len(parts)]

\* TFile.extension: what follows the last "." of the name, "" without one
fileExtension(path) ==
    LET pieces == split(fileName(path), ".")
    IN  IF Len(pieces) = 1 THEN <<>> ELSE pieces[Len(pieces)]

\* TFile.basename: the name without its extension
fileBasename(path) ==
    LET pieces == split(fileName(path), ".")
    IN  IF Len(pieces) = 1 THEN pieces[1]
        ELSE join(SubSeq(pieces, 1, Len(pieces) - 1), ".")

\* app.vault.getAbstractFileByPath(path) instanceof TFile / TFolder
isTFile(files, path) == path \in files
isTFolder(path) == path \in VaultFolders

\* app.vault.getResourcePath(file)
getResourcePath(path) == <<"app://">> \o path

\* The host lists a folder's children in an order of its own, the same on
\* every call for the same vault.
RECURSIVE childrenInOrder(_)
childrenInOrder(S) ==
    IF S = {} THEN <<>>
    ELSE LET first == CHOOSE x \in S : TRUE
         IN  <<first>> \o childrenInOrder(S \ {first})

-----------------------------------------------------------------------------
(* utils/image-utils.ts                                                    *)

IMAGE_EXTENSIONS ==
    {<<"png">>, <<"jpg">>, <<"jpeg">>, <<"webp">>, <<"gif">>, <<"bmp">>,
     <<"svg">>, <<"avif">>, <<"tif">>, <<"tiff">>}

isImageFile(path) == toLowerCase(fileExtension(path)) \in IMAGE_EXTENSIONS

\* filename.split(".").pop(): the whole name when it holds no "."
isImageExtension(filename) ==
    LET pieces == split(filename, ".")
        ext == pieces[Len(pieces)]
    IN  ext # <<>> /\ toLowerCase(ext) \in IMAGE_EXTENSIONS

\* a scan that looks at the folder's own files only
collectImageFilesFlat(files, folder) ==
    childrenInOrder({f \in files : parentPath(f) = folder /\ isImageFile(f)})

RECURSIVE collectImageFiles(_, _)
collectImageFiles(files, folder) ==
    LET subfolders == childrenInOrder({d \in VaultFolders : parentPath(d) = folder})
        own == childrenInOrder({f \in files : parentPath(f) = folder /\ isImageFile(f)})
        RECURSIVE below(_)
        below(ds) == IF ds = <<>> THEN <<>>
                     ELSE collectImageFiles(files, Head(ds)) \o below(Tail(ds))
    IN  below(subfolders) \o own

isAbsolutePath(value) ==
    \/ startsWith(value, <<"/">>)
    \/ Len(value) >= 3 /\ Collate(value[1]) > 0 /\ value[2] = ":" /\ value[3] = "/"

normalizeAbsolutePath(value) ==
    LET normalized == dropWhileHead(normalizePath(value), "/")
    IN  IF startsWith(value, <<"/">>) THEN <<"/">> \o normalized ELSE normalized

\* a resolution that compares with the base path itself, not with base + "/"
resolveVaultFolderPathPrefixOnly(basePath, folderPath) ==
    LET rawInput == trim(folderPath)
        isAbsolute == isAbsolutePath(rawInput)
        normalizedInput == IF isAbsolute THEN normalizeAbsolutePath(rawInput)
                           ELSE normalizePath(rawInput)
        normalizedBase == normalizeAbsolutePath(basePath)
        relative == dropWhileHead(sliceFrom(normalizedInput, Len(normalizedBase)), "/")
    IN  IF rawInput = <<>>
        THEN [folderPath |-> <<>>, errorMessage |-> <<"Image folder path is empty.">>]
        ELSE IF ~isAbsolute
        THEN [folderPath |-> normalizedInput, errorMessage |-> <<>>]
        ELSE IF basePath = <<>>
        THEN [folderPath |-> <<>>,
              errorMessage |-> <<"Absolute paths require a desktop vault.">>]
        ELSE IF ~startsWith(normalizedInput, normalizedBase)
        THEN [folderPath |-> <<>>, errorMessage |-> <<"Folder must be inside the vault.">>]
        ELSE IF relative = <<>>
        THEN [folderPath |-> <<>>,
              errorMessage |-> <<"Image folder path resolves to the vault root.">>]
        ELSE [folderPath |-> relative, errorMessage |-> <<>>]

resolveVaultFolderPath(basePath, folderPath) ==
    LET rawInput == trim(folderPath)
        isAbsolute == isAbsolutePath(rawInput)
        normalizedInput == IF isAbsolute THEN normalizeAbsolutePath(rawInput)
                           ELSE normalizePath(rawInput)
        normalizedBase == normalizeAbsolutePath(basePath)
        baseWithSlash == IF normalizedBase # <<>> /\ normalizedBase[Len(normalizedBase)] = "/"
                         THEN normalizedBase
                         ELSE normalizedBase \o <<"/">>
        relative == dropWhileHead(sliceFrom(normalizedInput, Len(normalizedBase)), "/")
    IN  IF rawInput = <<>>
        THEN [folderPath |-> <<>>, errorMessage |-> <<"Image folder path is empty.">>]
        ELSE IF ~isAbsolute
        THEN [folderPath |-> normalizedInput, errorMessage |-> <<>>]
        ELSE IF basePath = <<>>
        THEN [folderPath |-> <<>>,
              errorMessage |-> <<"Absolute paths require a desktop vault.">>]
        ELSE IF normalizedInput # normalizedBase /\ ~startsWith(normalizedInput, baseWithSlash)
        THEN [folderPath |-> <<>>, errorMessage |-> <<"Folder must be inside the vault.">>]
        ELSE IF relative = <<>>
        THEN [folderPath |-> <<>>,
              errorMessage |-> <<"Image folder path resolves to the vault root.">>]
        ELSE [folderPath |-> relative, errorMessage |-> <<>>]

getRelativePath(folderPath, filePath) ==
    LET normalizedFolderPath == normalizePath(folderPath)
        prefix == IF normalizedFolderPath[Len(normalizedFolderPath)] = "/"
                  THEN normalizedFolderPath
                  ELSE normalizedFolderPath \o <<"/">>
    IN  IF startsWith(filePath, prefix) THEN sliceFrom(filePath, Len(prefix)) ELSE filePath

\* decodeURIComponent of one atom; a lone "%" is malformed
decodeAtom(atom) ==
    CASE atom = "%20" -> " "
      [] atom = "%7C" -> "|"
      [] atom = "%25" -> "%"
      [] OTHER -> atom

decodeURIComponentSafe(value) ==
    IF \E i \in 1..Len(value) : value[i] = "%"
    THEN value
    ELSE [i \in 1..Len(value) |-> decodeAtom(value[i])]

encodeAtom(atom) ==
    CASE atom = " " -> "%20"
      [] atom = "|" -> "%7C"
      [] atom = "%" -> "%25"
      [] OTHER -> atom

encodeURIComponent(value) == [i \in 1..Len(value) |-> encodeAtom(value[i])]

encodePath(path) ==
    LET segments == split(path, "/")
    IN  join([i \in 1..Len(segments) |->
                 encodeURIComponent(decodeURIComponentSafe(segments[i]))], "/")

buildUrlFromRelative(baseUrl, relativePath) ==
    LET trimmedBaseUrl == dropWhileLast(trim(baseUrl), "/")
        trimmedRelativePath == dropWhileHead(trim(relativePath), "/")
    IN  IF trimmedBaseUrl = <<>> \/ trimmedRelativePath = <<>>
        THEN <<>>
        ELSE trimmedBaseUrl \o <<"/">> \o encodePath(trimmedRelativePath)

\* Array.prototype.sort with (a, b) => a.displayName.localeCompare(b.displayName):
\* a stable sort
RECURSIVE insertByDisplayName(_, _)
insertByDisplayName(sorted, item) ==
    IF sorted = <<>> THEN <<item>>
    ELSE IF localeCompare(item.displayName, Head(sorted).displayName) < 0
    THEN <<item>> \o sorted
    ELSE <<Head(sorted)>> \o insertByDisplayName(Tail(sorted), item)

RECURSIVE sortByDisplayName(_)
sortByDisplayName(items) ==
    IF items = <<>> THEN <<>>
    ELSE insertByDisplayName(sortByDisplayName(SubSeq(items, 1, Len(items) - 1)),
                             items[Len(items)])

\* files.map(...): one ImageItem per collected file
vaultItem(file, trimmedBaseUrl, trimmedFolderPath) ==
    LET relativePath == getRelativePath(trimmedFolderPath, file)
    IN  [file |-> <<file>>,
         relativePath |-> relativePath,
         url |-> IF trimmedBaseUrl # <<>>
                 THEN buildUrlFromRelative(trimmedBaseUrl, relativePath)
                 ELSE getResourcePath(file),
         displayName |-> fileBasename(file)]

getVaultImageItems(files, basePath, baseUrl, folderPath) ==
    LET trimmedBaseUrl == trim(baseUrl)
        rawFolderPath == trim(folderPath)
        resolvedFolder == resolveVaultFolderPath(basePath, rawFolderPath)
        trimmedFolderPath == normalizePath(resolvedFolder.folderPath)
        found == collectImageFiles(files, trimmedFolderPath)
        mapped == LET fs == found
                  IN  [i \in 1..Len(fs) |-> vaultItem(fs[i], trimmedBaseUrl, trimmedFolderPath)]
    IN  IF rawFolderPath = <<>>
        THEN [items |-> <<>>, errorMessage |-> <<"Image folder path is empty.">>]
        ELSE IF resolvedFolder.errorMessage # <<>>
        THEN [items |-> <<>>, errorMessage |-> resolvedFolder.errorMessage]
        ELSE IF ~isTFolder(trimmedFolderPath)
        THEN [items |-> <<>>, errorMessage |-> <<"Folder not found: ">> \o trimmedFolderPath]
        ELSE [items |-> sortByDisplayName(SelectSeq(mapped, LAMBDA item : item.url # <<>>)),
              errorMessage |-> <<>>]

-----------------------------------------------------------------------------
(* ui/background-picker-overlay.ts: BackgroundPickerOverlay                *)

batchSize == 24

\* getCacheKey, of the host settings it reads
getCacheKey(hostSettings) ==
    LET mode == IF hostSettings.useRemoteIndex THEN <<"remote">> ELSE <<"vault">>
        baseUrl == IF hostSettings.useRemoteIndex THEN trim(hostSettings.serverBaseUrl)
                   ELSE <<>>
        folder == trim(hostSettings.imageFolderPath)
    IN  mode \o <<"|">> \o baseUrl \o <<"|">> \o folder

\* getCacheKey with the auth token and the whitelist in the key; preferRemote
\* is what shouldPreferRemoteSource() answered and whitelistKey what
\* getWhitelistCacheKey() answered
getCacheKeyWithWhitelist(preferRemote, hostSettings, whitelistKey) ==
    LET mode == IF preferRemote THEN <<"remote">> ELSE <<"vault">>
        baseUrl == IF preferRemote THEN trim(hostSettings.serverBaseUrl) ELSE <<>>
        authToken == IF preferRemote THEN trim(hostSettings.authToken) ELSE <<>>
        folder == trim(hostSettings.imageFolderPath)
    IN  mode \o <<"|">> \o baseUrl \o <<"|">> \o folder \o <<"|">> \o authToken
             \o <<"|">> \o whitelistKey

\* a lookup that never consults the cache
cacheLookupAlwaysResolves(forceRefresh, cacheKey) ==
    [invoked |-> TRUE,
     result |-> getVaultImageItems(vaultFiles, hostBasePath, <<>>,
                                   settings.imageFolderPath)]

\* a lookup that serves the cache on a key match even when a refresh is forced
cacheLookupIgnoresForce(forceRefresh, cacheKey) ==
    IF <<cacheKey>> = cachedKey
    THEN [invoked |-> FALSE,
          result |-> [items |-> cachedItems, errorMessage |-> cachedError]]
    ELSE [invoked |-> TRUE,
          result |-> getVaultImageItems(vaultFiles, hostBasePath, <<>>,
                                        settings.imageFolderPath)]

\* renderGrid, lines 294-302: the cached result or a fresh folder scan
cacheLookup(forceRefresh, cacheKey) ==
    IF ~forceRefresh /\ <<cacheKey>> = cachedKey
    THEN [invoked |-> FALSE,
          result |-> [items |-> cachedItems, errorMessage |-> cachedError]]
    ELSE [invoked |-> TRUE,
          result |-> getVaultImageItems(vaultFiles, hostBasePath, <<>>,
                                        settings.imageFolderPath)]

\* the record kept of the last step
NoStep ==
    [kind |-> "none", forceRefresh |-> FALSE, cacheKey |-> <<>>, keyBefore |-> <<>>,
     itemsBefore |-> <<>>, errorBefore |-> <<>>, invoked |-> FALSE,
     result |-> [items |-> <<>>, errorMessage |-> <<>>],
     scheduledAt |-> 0, firedAt |-> 0, appended |-> 0, rescheduled |-> FALSE,
     statusBefore |-> <<>>]

\* a scheduler that drops the request
scheduleTileRenderDropped(callbacks, queue, token) == callbacks

\* scheduleTileRender: one more pending callback, when there is a queue
scheduleTileRender(callbacks, queue, token) ==
    IF queue = <<>> THEN callbacks
    ELSE [callbacks EXCEPT ![token] = @ + 1]

\* gridEl.innerHTML = "" at the start of renderGrid
\* a grid whose tiles are left in place
keptGrid(tiles) == tiles

clearedGrid(tiles) == <<>>

\* a cache that keeps its old entry when the resolver reported an error
cacheEntryDropsErrors(cacheKey, result) ==
    IF result.errorMessage # <<>>
    THEN [key |-> cachedKey, items |-> cachedItems, error |-> cachedError]
    ELSE [key |-> <<cacheKey>>, items |-> result.items, error |-> <<>>]

\* renderGrid, lines 308-326: the cache entry written for a result
cacheEntry(cacheKey, result) ==
    IF result.errorMessage # <<>>
    THEN [key |-> <<cacheKey>>, items |-> <<>>, error |-> result.errorMessage]
    ELSE IF Len(result.items) = 0
    THEN [key |-> <<cacheKey>>, items |-> <<>>, error |-> <<>>]
    ELSE [key |-> <<cacheKey>>, items |-> result.items, error |-> <<>>]

\* a status line that reports an error as an empty folder
statusForHidesErrors(result) ==
    IF result.errorMessage # <<>> \/ Len(result.items) = 0
    THEN <<"No images found.">>
    ELSE <<"Loading 0 / ", ToString(Len(result.items)), "...">>

\* renderGrid, lines 308-318, and startTileRender: the status text for a result
statusFor(result) ==
    IF result.errorMessage # <<>> THEN result.errorMessage
    ELSE IF Len(result.items) = 0 THEN <<"No images found.">>
    ELSE <<"Loading 0 / ", ToString(Len(result.items)), "...">>

renderGrid(forceRefresh) ==
    \E cacheKey \in {getCacheKey(settings)} :
    \E found \in {cacheLookup(forceRefresh, cacheKey)} :
    LET token == renderToken + 1
        result == found.result
        entry == cacheEntry(cacheKey, result)
        queue == <<[items |-> result.items, index |-> 0, token |-> token]>>
    IN  /\ renderToken' = token
        /\ grid' = clearedGrid(grid)
        /\ lookup' = [NoStep EXCEPT !.kind = "renderGrid",
                                    !.forceRefresh = forceRefresh,
                                    !.cacheKey = cacheKey,
                                    !.keyBefore = cachedKey,
                                    !.itemsBefore = cachedItems,
                                    !.errorBefore = cachedError,
                                    !.invoked = found.invoked,
                                    !.result = result]
        /\ cachedKey' = entry.key
        /\ cachedItems' = entry.items
        /\ cachedError' = entry.error
        /\ passItems' = result.items
        /\ statusText' = statusFor(result)
        /\ IF result.errorMessage # <<>> \/ Len(result.items) = 0
           THEN /\ renderQueue' = <<>>
                /\ itemCount' = 0
                /\ UNCHANGED idleCallbacks
           ELSE /\ itemCount' = Len(result.items)
                /\ renderQueue' = queue
                /\ idleCallbacks' = scheduleTileRender(idleCallbacks, queue, token)

\* open(): builds the overlay when there is none, then renders the grid
Open ==
    /\ renderToken < MaxToken
    /\ overlayOpen' = TRUE
    /\ renderGrid(FALSE)
    /\ UNCHANGED <<settings, vaultFiles, hostBasePath, rs>>

\* the Refresh button: renderGrid(true)
Refresh ==
    /\ overlayOpen
    /\ renderToken < MaxToken
    /\ renderGrid(TRUE)
    /\ UNCHANGED <<overlayOpen, settings, vaultFiles, hostBasePath, rs>>

\* a close() that tears the overlay down and leaves the token alone
CloseKeepsToken ==
    /\ IF ~overlayOpen
       THEN UNCHANGED <<overlayOpen, grid, statusText, renderQueue>>
       ELSE /\ overlayOpen' = FALSE
            /\ grid' = <<>>
            /\ statusText' = <<>>
            /\ renderQueue' = <<>>
    /\ passItems' = IF overlayOpen THEN <<>> ELSE passItems
    /\ lookup' = NoStep
    /\ UNCHANGED <<renderToken, itemCount, cachedKey, cachedItems, cachedError,
                   idleCallbacks, settings, vaultFiles, hostBasePath, rs>>

\* a close() that advances the token and leaves the queue in place
CloseKeepsQueue ==
    /\ overlayOpen => renderToken < MaxToken
    /\ IF ~overlayOpen
       THEN UNCHANGED <<overlayOpen, grid, statusText, renderToken>>
       ELSE /\ renderToken' = renderToken + 1
            /\ overlayOpen' = FALSE
            /\ grid' = <<>>
            /\ statusText' = <<>>
    /\ passItems' = IF overlayOpen THEN <<>> ELSE passItems
    /\ lookup' = NoStep
    /\ UNCHANGED <<renderQueue, itemCount, cachedKey, cachedItems, cachedError,
                   idleCallbacks, settings, vaultFiles, hostBasePath, rs>>

\* a close() that runs its teardown whether or not the picker is open, and
\* drops the cache with it
CloseClearsCache ==
    /\ renderToken < MaxToken
    /\ renderToken' = renderToken + 1
    /\ overlayOpen' = FALSE
    /\ grid' = <<>>
    /\ statusText' = <<>>
    /\ renderQueue' = <<>>
    /\ cachedKey' = <<>>
    /\ cachedItems' = <<>>
    /\ cachedError' = <<>>
    /\ passItems' = <<>>
    /\ lookup' = NoStep
    /\ UNCHANGED <<itemCount, idleCallbacks, settings, vaultFiles, hostBasePath, rs>>

\* close(): the Close button, Escape, or a click on the backdrop
Close ==
    /\ overlayOpen => renderToken < MaxToken
    /\ IF ~overlayOpen
       THEN UNCHANGED <<overlayOpen, grid, statusText, renderToken, renderQueue>>
       ELSE /\ renderToken' = renderToken + 1
            /\ overlayOpen' = FALSE
            /\ grid' = <<>>
            /\ statusText' = <<>>
            /\ renderQueue' = <<>>
    /\ passItems' = IF overlayOpen THEN <<>> ELSE passItems
    /\ lookup' = NoStep
    /\ UNCHANGED <<itemCount, cachedKey, cachedItems, cachedError, idleCallbacks,
                   settings, vaultFiles, hostBasePath, rs>>

\* a slice that takes all the items that are left
batchOfRest(queue) == SubSeq(queue.items, queue.index + 1, Len(queue.items))

\* the tiles one slice appends: items[index .. index + batchSize - 1]
batchOf(queue) ==
    LET last == IF queue.index + batchSize < Len(queue.items)
                THEN queue.index + batchSize
                ELSE Len(queue.items)
    IN  SubSeq(queue.items, queue.index + 1, last)

\* renderTileBatch, lines 414-421: the slice runs only with a grid, a queue,
\* and a queue whose token is the current one
sliceRuns ==
    /\ overlayOpen
    /\ renderQueue # <<>>
    /\ renderQueue[1].token = renderToken

\* a pending idle (or timer) callback fires: renderTileBatch()
RenderTileBatch(scheduledAt) ==
    /\ idleCallbacks[scheduledAt] > 0
    /\ LET pending == [idleCallbacks EXCEPT ![scheduledAt] = @ - 1]
       IN  IF ~sliceRuns
           THEN /\ idleCallbacks' = pending
                /\ lookup' = [NoStep EXCEPT !.kind = "callback",
                                            !.scheduledAt = scheduledAt,
                                            !.firedAt = renderToken,
                                            !.statusBefore = statusText]
                /\ UNCHANGED <<grid, statusText, renderQueue>>
           ELSE LET queue == renderQueue[1]
                    batch == batchOf(queue)
                    index == queue.index + Len(batch)
                    more == index < Len(queue.items)
                    next == <<[queue EXCEPT !.index = index]>>
                IN  /\ grid' = grid \o [i \in 1..Len(batch) |-> batch[i].relativePath]
                    /\ IF more
                       THEN /\ statusText' = <<"Loading ", ToString(index), " / ",
                                               ToString(Len(queue.items)), "...">>
                            /\ renderQueue' = next
                            /\ idleCallbacks' = scheduleTileRender(pending, next, renderToken)
                       ELSE /\ statusText' = <<>>
                            /\ renderQueue' = <<>>
                            /\ idleCallbacks' = pending
                    /\ lookup' = [NoStep EXCEPT !.kind = "callback",
                                                !.scheduledAt = scheduledAt,
                                                !.firedAt = renderToken,
                                                !.appended = Len(batch),
                                                !.rescheduled = more,
                                                !.statusBefore = statusText]
    /\ UNCHANGED <<overlayOpen, itemCount, renderToken, cachedKey, cachedItems,
                   cachedError, passItems, settings, vaultFiles, hostBasePath, rs>>

-----------------------------------------------------------------------------
(* The environment of the picker: the settings tab and the vault.          *)

FolderChoices == {<<"w">>, <<"o">>, <<"x">>}
BaseUrlChoices == {<<"http:", "/", "/", "h">>, <<"http:", "/", "/", "g">>}

\* the files of folder "w": a.png, b.png, ...
bigFolderFiles ==
    {<<"w", "/", Letters[i], ".", "png">> : i \in 1..BigFolderSize}

\* the files that come and go while the picker is in use
VolatileFiles ==
    {<<"w", "/", Letters[BigFolderSize], ".", "png">>, <<"o", "/", "a", ".", "png">>}

\* settings.ts: the onChange handlers of the settings tab
SetImageFolderPath ==
    /\ \E value \in FolderChoices :
          settings' = [settings EXCEPT !.imageFolderPath = trim(value)]
    /\ UNCHANGED <<vaultFiles, hostBasePath, rs>>
    /\ lookup' = NoStep
    /\ UNCHANGED <<overlayOpen, grid, statusText, itemCount, renderToken, renderQueue,
                   cachedKey, cachedItems, cachedError, idleCallbacks, passItems>>

SetUseRemoteIndex ==
    /\ \E value \in BOOLEAN :
          settings' = [settings EXCEPT !.useRemoteIndex = value]
    /\ UNCHANGED <<vaultFiles, hostBasePath, rs>>
    /\ lookup' = NoStep
    /\ UNCHANGED <<overlayOpen, grid, statusText, itemCount, renderToken, renderQueue,
                   cachedKey, cachedItems, cachedError, idleCallbacks, passItems>>

SetServerBaseUrl ==
    /\ \E value \in BaseUrlChoices :
          settings' = [settings EXCEPT !.serverBaseUrl = trim(value)]
    /\ UNCHANGED <<vaultFiles, hostBasePath, rs>>
    /\ lookup' = NoStep
    /\ UNCHANGED <<overlayOpen, grid, statusText, itemCount, renderToken, renderQueue,
                   cachedKey, cachedItems, cachedError, idleCallbacks, passItems>>

\* a file of the vault is deleted or moved away, or comes back
VaultChange ==
    /\ \E f \in VolatileFiles :
          vaultFiles' = IF f \in vaultFiles THEN vaultFiles \ {f} ELSE vaultFiles \cup {f}
    /\ UNCHANGED <<settings, hostBasePath, rs>>
    /\ lookup' = NoStep
    /\ UNCHANGED <<overlayOpen, grid, statusText, itemCount, renderToken, renderQueue,
                   cachedKey, cachedItems, cachedError, idleCallbacks, passItems>>

NoRun == [pc |-> "idle"]

Init ==
    /\ settings \in [serverBaseUrl : BaseUrlChoices,
                     imageFolderPath : FolderChoices,
                     useRemoteIndex : BOOLEAN]
    /\ vaultFiles = bigFolderFiles \cup {<<"o", "/", "a", ".", "png">>,
                                         <<"o", "/", "b", ".", "txt">>}
    /\ hostBasePath = <<"/", "v">>
    /\ overlayOpen = FALSE
    /\ grid = <<>>
    /\ statusText = <<>>
    /\ itemCount = 0
    /\ renderToken = 0
    /\ renderQueue = <<>>
    /\ cachedKey = <<>>
    /\ cachedItems = <<>>
    /\ cachedError = <<>>
    /\ idleCallbacks = [t \in 0..(MaxToken + 1) |-> 0]
    /\ lookup = NoStep
    /\ passItems = <<>>
    /\ rs = NoRun

Next ==
    \/ Open
    \/ Refresh
    \/ Close
    \/ \E t \in 0..MaxToken : RenderTileBatch(t)
    \/ SetImageFolderPath
    \/ SetUseRemoteIndex
    \/ SetServerBaseUrl
    \/ VaultChange

Spec == Init /\ [][Next]_vars

\* requestIdleCallback, with its timeout, and setTimeout run a pending
\* callback sooner or later.  The fair specification follows the picker in
\* vault mode: the folder and the vault change and the picker is opened,
\* refreshed and closed while callbacks are pending.
InitFair ==
    /\ Init
    /\ ~settings.useRemoteIndex
    /\ settings.serverBaseUrl = <<"http:", "/", "/", "h">>

NextFair ==
    \/ Open
    \/ Refresh
    \/ Close
    \/ \E t \in 0..MaxToken : RenderTileBatch(t)
    \/ SetImageFolderPath
    \/ VaultChange

SpecFair ==
    /\ InitFair
    /\ [][NextFair]_vars
    /\ \A t \in 0..MaxToken : WF_vars(RenderTileBatch(t))

-----------------------------------------------------------------------------
(* utils/image-utils.ts: the remote listings.  A response of requestUrl is *)
(* [threw, status, body]; body is what a parser makes of the text:         *)
(* [parses, itemsIsArray, items] of the JSON text and [hrefs] of the       *)
(* a[href] elements of the HTML text.                                      *)

getFilenameFromPath(pathValue) ==
    LET segments == SelectSeq(split(pathValue, "/"), LAMBDA seg : seg # <<>>)
    IN  IF Len(segments) > 0 THEN segments[Len(segments)] ELSE pathValue

decodePathSegments(path) ==
    LET segments == split(path, "/")
    IN  join([i \in 1..Len(segments) |-> decodeURIComponentSafe(segments[i])], "/")

\* new URL(value) succeeds: a scheme, "//" and a host; the model's URLs carry
\* no query and no fragment
isUrl(value) ==
    /\ Len(value) >= 4
    /\ value[1] = "http:" /\ value[2] = "/" /\ value[3] = "/"
    /\ value[4] \notin {"/", " "}

\* URL.origin
urlOrigin(url) == SubSeq(url, 1, 4)

\* the URL parser on the segments of a path: "." is dropped, ".." removes the
\* segment before it, and either one in last position leaves an empty segment
RECURSIVE resolveDotSegments(_, _)
resolveDotSegments(stack, segments) ==
    IF segments = <<>> THEN stack
    ELSE LET segment == Head(segments)
             last == Len(segments) = 1
             popped == IF stack = <<>> THEN <<>> ELSE SubSeq(stack, 1, Len(stack) - 1)
         IN  IF segment \in {<<"..">>, <<".", ".">>}
             THEN resolveDotSegments(IF last THEN popped \o <<<<>>>> ELSE popped,
                                     Tail(segments))
             ELSE IF segment = <<".">>
             THEN resolveDotSegments(IF last THEN stack \o <<<<>>>> ELSE stack,
                                     Tail(segments))
             ELSE resolveDotSegments(stack \o <<segment>>, Tail(segments))

\* URL.pathname: "/" for an empty path, dot segments resolved, a space
\* percent-encoded
urlPathname(url) ==
    LET rest == SubSeq(url, 5, Len(url))
        encoded == [i \in 1..Len(rest) |-> IF rest[i] = " " THEN "%20" ELSE rest[i]]
    IN  IF rest = <<>> THEN <<"/">>
        ELSE <<"/">> \o join(resolveDotSegments(<<>>, split(Tail(encoded), "/")), "/")

\* URL.toString()
urlToString(url) == urlOrigin(url) \o urlPathname(url)

normalizeUrlForRelative(url) ==
    IF isUrl(url)
    THEN LET pathname == urlPathname(url)
         IN  IF pathname[Len(pathname)] = "/" THEN urlOrigin(url) \o pathname
             ELSE urlOrigin(url) \o pathname \o <<"/">>
    ELSE IF url # <<>> /\ url[Len(url)] = "/" THEN url ELSE url \o <<"/">>

\* new URL(href, baseUrl).toString() for an href that is a path
buildAbsoluteUrl(baseUrl, href) ==
    IF ~isUrl(baseUrl) THEN <<>>
    ELSE IF startsWith(href, <<"/">>) THEN urlToString(urlOrigin(baseUrl) \o href)
    ELSE LET pathname == urlPathname(baseUrl)
             segments == split(pathname, "/")
             directory == join(SubSeq(segments, 1, Len(segments) - 1), "/") \o <<"/">>
         IN  urlToString(urlOrigin(baseUrl) \o directory \o href)

\* a path extraction that compares with the base path as it is written
getRelativePathFromUrlNoSlash(baseUrl, url) ==
    IF ~isUrl(baseUrl) \/ ~isUrl(url) THEN url
    ELSE LET basePath == urlPathname(baseUrl)
             targetPath == urlPathname(url)
         IN  IF startsWith(targetPath, basePath)
             THEN sliceFrom(targetPath, Len(basePath))
             ELSE Tail(targetPath)

getRelativePathFromUrl(baseUrl, url) ==
    IF ~isUrl(baseUrl) \/ ~isUrl(url) THEN url
    ELSE LET pathname == urlPathname(baseUrl)
             basePath == IF pathname[Len(pathname)] = "/" THEN pathname
                         ELSE pathname \o <<"/">>
             targetPath == urlPathname(url)
         IN  IF startsWith(targetPath, basePath)
             THEN sliceFrom(targetPath, Len(basePath))
             ELSE Tail(targetPath)

getFilenameFromUrl(url) ==
    IF ~isUrl(url) THEN <<>>
    ELSE LET segments == SelectSeq(split(urlPathname(url), "/"),
                                   LAMBDA seg : seg # <<>>)
         IN  IF Len(segments) > 0 THEN segments[Len(segments)] ELSE <<>>

httpError(status) == <<"HTTP error: ", ToString(status)>>

\* one anchor of the listing: the item it yields, or <<>> when it is skipped
listedItem(baseUrlNormalized, href) ==
    LET url == buildAbsoluteUrl(baseUrlNormalized, href)
        filename == getFilenameFromUrl(url)
    IN  IF href = <<>> \/ href = <<"..", "/">> \/ startsWith(href, <<"?">>)
           \/ startsWith(href, <<"#">>)
        THEN <<>>
        ELSE IF filename = <<>> \/ ~isImageExtension(filename)
        THEN <<>>
        ELSE <<[file |-> <<>>,
                relativePath |->
                    decodePathSegments(getRelativePathFromUrl(baseUrlNormalized, url)),
                url |-> url,
                displayName |-> decodeURIComponentSafe(filename)]>>

RECURSIVE listedItems(_, _)
listedItems(baseUrlNormalized, links) ==
    IF links = <<>> THEN <<>>
    ELSE listedItem(baseUrlNormalized, Head(links))
            \o listedItems(baseUrlNormalized, Tail(links))

\* a listing fetch that reads the anchors whatever the status
getRemoteImageItemsIgnoresStatus(baseUrl, response) ==
    LET trimmedBaseUrl == trim(baseUrl)
    IN  IF trimmedBaseUrl = <<>>
        THEN [items |-> <<>>, errorMessage |-> <<"Base URL is empty.">>]
        ELSE IF response.threw
        THEN [items |-> <<>>, errorMessage |-> <<"Failed to fetch the directory listing.">>]
        ELSE [items |-> sortByDisplayName(
                            listedItems(normalizeUrlForRelative(trimmedBaseUrl),
                                        response.body.hrefs)),
              errorMessage |-> <<>>]

getRemoteImageItems(baseUrl, response) ==
    LET trimmedBaseUrl == trim(baseUrl)
    IN  IF trimmedBaseUrl = <<>>
        THEN [items |-> <<>>, errorMessage |-> <<"Base URL is empty.">>]
        ELSE IF response.threw
        THEN [items |-> <<>>, errorMessage |-> <<"Failed to fetch the directory listing.">>]
        ELSE IF response.status < 200 \/ response.status >= 300
        THEN [items |-> <<>>, errorMessage |-> httpError(response.status)]
        ELSE [items |-> sortByDisplayName(
                            listedItems(normalizeUrlForRelative(trimmedBaseUrl),
                                        response.body.hrefs)),
              errorMessage |-> <<>>]

\* an index fetch that reads the body whatever the status
getRemoteIndexItemsIgnoresStatus(baseUrl, response) ==
    IF trim(baseUrl) = <<>>
    THEN [items |-> <<>>, errorMessage |-> <<"Base URL is empty.">>]
    ELSE IF response.threw \/ ~response.body.parses
    THEN [items |-> <<>>, errorMessage |-> <<"Failed to fetch the JSON index.">>]
    ELSE [items |-> IF response.body.itemsIsArray THEN response.body.items ELSE <<>>,
          errorMessage |-> <<>>]

\* an index fetch whose catch block reports an empty index instead of a failure
getRemoteIndexItemsSwallowsFailure(baseUrl, response) ==
    IF trim(baseUrl) = <<>>
    THEN [items |-> <<>>, errorMessage |-> <<"Base URL is empty.">>]
    ELSE IF response.threw
    THEN [items |-> <<>>, errorMessage |-> <<>>]
    ELSE IF response.status < 200 \/ response.status >= 300
    THEN [items |-> <<>>, errorMessage |-> httpError(response.status)]
    ELSE IF ~response.body.parses
    THEN [items |-> <<>>, errorMessage |-> <<>>]
    ELSE [items |-> IF response.body.itemsIsArray THEN response.body.items ELSE <<>>,
          errorMessage |-> <<>>]

getRemoteIndexItems(baseUrl, response) ==
    LET trimmedBaseUrl == trim(baseUrl)
    IN  IF trimmedBaseUrl = <<>>
        THEN [items |-> <<>>, errorMessage |-> <<"Base URL is empty.">>]
        ELSE IF response.threw
        THEN [items |-> <<>>, errorMessage |-> <<"Failed to fetch the JSON index.">>]
        ELSE IF response.status < 200 \/ response.status >= 300
        THEN [items |-> <<>>, errorMessage |-> httpError(response.status)]
        ELSE IF ~response.body.parses
        THEN [items |-> <<>>, errorMessage |-> <<"Failed to fetch the JSON index.">>]
        ELSE [items |-> IF response.body.itemsIsArray THEN response.body.items ELSE <<>>,
              errorMessage |-> <<>>]

\* relativePaths.map(...): the item of one relative path, <<>> when it has no URL
relativeItem(files, useVault, normalizedFolder, trimmedBaseUrl, relativePath) ==
    LET normalizedRelative == dropWhileHead(trim(relativePath), "/")
        fullPath == normalizePath(normalizedFolder \o <<"/">> \o normalizedRelative)
        hasFile == useVault /\ normalizedFolder # <<>> /\ isTFile(files, fullPath)
        url == IF hasFile THEN getResourcePath(fullPath)
               ELSE IF trimmedBaseUrl # <<>>
               THEN buildUrlFromRelative(trimmedBaseUrl, normalizedRelative)
               ELSE <<>>
    IN  IF url = <<>> THEN <<>>
        ELSE <<[file |-> IF hasFile THEN <<fullPath>> ELSE <<>>,
                relativePath |-> normalizedRelative,
                url |-> url,
                displayName |-> IF hasFile THEN fileBasename(fullPath)
                                ELSE getFilenameFromPath(normalizedRelative)]>>

RECURSIVE relativeItems(_, _, _, _, _)
relativeItems(files, useVault, normalizedFolder, trimmedBaseUrl, relativePaths) ==
    IF relativePaths = <<>> THEN <<>>
    ELSE relativeItem(files, useVault, normalizedFolder, trimmedBaseUrl, Head(relativePaths))
            \o relativeItems(files, useVault, normalizedFolder, trimmedBaseUrl,
                             Tail(relativePaths))

\* a builder that reports the folder's error next to the items it built
buildImageItemsFromRelativePathsKeepsError(files, basePath, folderPath, relativePaths, baseUrl) ==
    LET trimmedBaseUrl == trim(baseUrl)
        rawFolderPath == trim(folderPath)
        resolvedFolder == resolveVaultFolderPath(basePath, rawFolderPath)
        useVault == resolvedFolder.errorMessage = <<>>
        normalizedFolder == IF useVault THEN normalizePath(resolvedFolder.folderPath)
                            ELSE <<>>
    IN  [items |-> sortByDisplayName(
                       relativeItems(files, useVault, normalizedFolder,
                                     trimmedBaseUrl, relativePaths)),
         errorMessage |-> resolvedFolder.errorMessage]

buildImageItemsFromRelativePaths(files, basePath, folderPath, relativePaths, baseUrl) ==
    LET trimmedBaseUrl == trim(baseUrl)
        rawFolderPath == trim(folderPath)
        resolvedFolder == resolveVaultFolderPath(basePath, rawFolderPath)
        useVault == resolvedFolder.errorMessage = <<>>
        normalizedFolder == IF useVault THEN normalizePath(resolvedFolder.folderPath)
                            ELSE <<>>
    IN  IF ~useVault /\ trimmedBaseUrl = <<>>
        THEN [items |-> <<>>, errorMessage |-> resolvedFolder.errorMessage]
        ELSE [items |-> sortByDisplayName(
                            relativeItems(files, useVault, normalizedFolder,
                                          trimmedBaseUrl, relativePaths)),
              errorMessage |-> <<>>]

-----------------------------------------------------------------------------
(* ui/background-picker-overlay.ts: loadImageItems, one run of the image   *)
(* source resolver, a step at each await.                                  *)

\* isImagePath: pathValue.split(".").pop()?.toLowerCase() is a supported extension
isImagePath(pathValue) ==
    LET pieces == split(pathValue, ".")
    IN  toLowerCase(pieces[Len(pieces)]) \in IMAGE_EXTENSIONS

\* normalizeRelativePath: a whitelist entry as a folder-relative path
normalizeRelativePath(value) == dropWhileHead(collapseSlashes(trim(value)), "/")

\* filterExistingVaultRelativePaths: the paths that are files under the folder
filterExistingVaultRelativePaths(files, basePath, folderPath, paths) ==
    LET resolvedFolder == resolveVaultFolderPath(basePath, trim(folderPath))
        normalizedFolder == normalizePath(resolvedFolder.folderPath)
    IN  IF resolvedFolder.errorMessage # <<>> THEN <<>>
        ELSE SelectSeq(paths, LAMBDA path :
                 isTFile(files, normalizePath(normalizedFolder \o <<"/">> \o path)))

\* the whitelist branch: the whitelist's image paths that exist in the vault
whitelistItems(files, basePath, folderPath, linkedInfo) ==
    LET normalized == [i \in 1..Len(linkedInfo.whitelistFiles) |->
                          normalizeRelativePath(linkedInfo.whitelistFiles[i])]
        allowedPaths == SelectSeq(normalized, isImagePath)
        filteredPaths == filterExistingVaultRelativePaths(files, basePath, folderPath,
                                                          allowedPaths)
    IN  buildImageItemsFromRelativePaths(files, basePath, folderPath, filteredPaths,
                                         linkedInfo.baseUrl)

\* getLinkedWhitelistInfo as the picker sees it: the linked entry's whitelist
getLinkedWhitelistInfo(linked) ==
    IF linked = <<>> THEN [enabled |-> FALSE, files |-> <<>>]
    ELSE [enabled |-> linked[1].whitelistEnabled, files |-> linked[1].whitelistFiles]

\* applyWhitelistFilter: an enabled whitelist keeps the entries it lists
applyWhitelistFilter(result, whitelist) ==
    IF ~whitelist.enabled THEN result
    ELSE [result EXCEPT !.items = SelectSeq(result.items, LAMBDA item :
              \E i \in 1..Len(whitelist.files) :
                  normalizeRelativePath(whitelist.files[i]) = item.relativePath)]

\* a selection that goes to the server whenever no entry is linked
selectSourceRemoteFirst(linked, useRemoteIndex) ==
    IF linked # <<>>
    THEN IF linked[1].whitelistEnabled THEN "whitelist" ELSE "linkedScan"
    ELSE "remote"

\* the ordered conditions of loadImageItems: which source serves the picker
selectSource(linked, useRemoteIndex) ==
    IF linked # <<>>
    THEN IF linked[1].whitelistEnabled THEN "whitelist" ELSE "linkedScan"
    ELSE IF useRemoteIndex THEN "remote" ELSE "vault"

\* the result handed back for a remote listing: its failure as it is, or the
\* items of its relative paths
listingResult(files, basePath, folderPath, listing, baseUrl) ==
    IF listing.errorMessage # <<>>
    THEN [items |-> <<>>, errorMessage |-> listing.errorMessage]
    ELSE buildImageItemsFromRelativePaths(
             files, basePath, folderPath,
             [i \in 1..Len(listing.items) |-> listing.items[i].relativePath], baseUrl)

\* the base URL the run talks to
remoteBaseUrl(run) ==
    IF run.linked # <<>> THEN run.linked[1].baseUrl ELSE settings.serverBaseUrl

NoResponse == [threw |-> TRUE, status |-> 0, body |-> [parses |-> FALSE]]

\* requestUrl is reached only with a non-empty base URL
issuesRequest(baseUrl) == trim(baseUrl) # <<>>

finished(run, result) == [run EXCEPT !.pc = "done", !.result = <<result>>]

\* getRemoteImageItems is awaited: the fallback after a failed index
htmlAttempt(run) ==
    LET baseUrl == remoteBaseUrl(run)
        attempted == [run EXCEPT !.attempts = @ \o <<"html">>]
    IN  IF issuesRequest(baseUrl)
        THEN [attempted EXCEPT !.pc = "html",
                               !.requests = @ \o <<[kind |-> "html", baseUrl |-> trim(baseUrl)]>>]
        ELSE LET fallback == getRemoteImageItems(baseUrl, NoResponse)
             IN  finished([attempted EXCEPT !.htmlResult = <<fallback>>],
                          listingResult(vaultFiles, hostBasePath, settings.imageFolderPath,
                                        fallback, baseUrl))

\* what loadImageItems does once getRemoteIndexItems has returned
afterIndex(run, indexResult) ==
    LET baseUrl == remoteBaseUrl(run)
        known == [run EXCEPT !.indexResult = <<indexResult>>]
    IN  IF run.source = "remote" /\ indexResult.errorMessage # <<>>
        THEN htmlAttempt(known)
        ELSE finished(known, listingResult(vaultFiles, hostBasePath,
                                           settings.imageFolderPath, indexResult, baseUrl))

\* getRemoteIndexItems is awaited
indexAttempt(run) ==
    LET baseUrl == remoteBaseUrl(run)
        attempted == [run EXCEPT !.attempts = @ \o <<"index">>]
    IN  IF issuesRequest(baseUrl)
        THEN [attempted EXCEPT !.pc = "index",
                               !.requests = @ \o <<[kind |-> "index", baseUrl |-> trim(baseUrl)]>>]
        ELSE afterIndex(attempted, getRemoteIndexItems(baseUrl, NoResponse))

\* loadImageItems is called: the synchronous sources answer at once, the
\* remote ones suspend at their first request
LoadImageItems ==
    /\ rs.pc = "idle"
    /\ LET source == selectSource(rs.linked, settings.useRemoteIndex)
           run == [rs EXCEPT !.source = source]
           folderPath == settings.imageFolderPath
       IN  CASE source = "whitelist" ->
                    rs' = finished(run, whitelistItems(vaultFiles, hostBasePath, folderPath,
                                                       rs.linked[1]))
             [] source = "linkedScan" ->
                    \E localResult \in {getVaultImageItems(vaultFiles, hostBasePath,
                                                          rs.linked[1].baseUrl, folderPath)} :
                        rs' = IF localResult.errorMessage = <<>>
                              THEN finished([run EXCEPT !.localResult = <<localResult>>],
                                            localResult)
                              ELSE indexAttempt([run EXCEPT !.localResult = <<localResult>>])
             [] source = "remote" -> rs' = indexAttempt(run)
             [] source = "vault" ->
                    \E localResult \in {getVaultImageItems(vaultFiles, hostBasePath, <<>>,
                                                          folderPath)} :
                        rs' = finished([run EXCEPT !.localResult = <<localResult>>],
                                       applyWhitelistFilter(localResult,
                                                            getLinkedWhitelistInfo(rs.linked)))
    /\ UNCHANGED <<settings, vaultFiles, hostBasePath, pickerVars>>

\* the request for __index.json completes with some response
IndexResponse(response) ==
    /\ rs.pc = "index"
    /\ rs' = afterIndex([rs EXCEPT !.indexResponse = <<response>>],
                        getRemoteIndexItems(remoteBaseUrl(rs), response))
    /\ UNCHANGED <<settings, vaultFiles, hostBasePath, pickerVars>>

\* the request for the directory listing completes with some response
HtmlResponse(response) ==
    /\ rs.pc = "html"
    /\ \E fallback \in {getRemoteImageItems(remoteBaseUrl(rs), response)} :
          rs' = finished([rs EXCEPT !.htmlResponse = <<response>>,
                                    !.htmlResult = <<fallback>>],
                         listingResult(vaultFiles, hostBasePath, settings.imageFolderPath,
                                       fallback, remoteBaseUrl(rs)))
    /\ UNCHANGED <<settings, vaultFiles, hostBasePath, pickerVars>>

\* the run is over; the next one starts from scratch
Idle(linked) ==
    [pc |-> "idle", linked |-> linked, source |-> "none", attempts |-> <<>>,
     requests |-> <<>>, localResult |-> <<>>, indexResponse |-> <<>>,
     indexResult |-> <<>>, htmlResponse |-> <<>>, htmlResult |-> <<>>, result |-> <<>>]

-----------------------------------------------------------------------------
(* The environment of the resolver: the vault, the servers, the bridge.    *)

artX == <<"art", "/", "x", ".", "png">>
artMissing == <<"art", "/", "missing", ".", "png">>
photoB == <<"b", ".", "jpg">>
notesTxt == <<"notes", ".", "txt">>
remoteOnly == <<"r", ".", "png">>
\* a file whose whole name is the word of an extension
pngName == <<"png">>

ResolveFiles ==
    {<<"w", "/">> \o artX, <<"w", "/">> \o photoB, <<"w", "/">> \o notesTxt,
     <<"w", "/">> \o pngName}

LinkedBaseUrl == <<"http:", "/", "/", "l">>

Whitelists ==
    {<<artX, artMissing>>,
     <<notesTxt, <<"/">> \o photoB, remoteOnly>>,
     <<artX, <<"/">> \o artX, pngName>>,
     <<>>}

\* what the bridge returns for the linked entry, <<>> when there is none
LinkedContexts ==
    {<<>>}
    \cup {<<[baseUrl |-> LinkedBaseUrl, authToken |-> <<>>,
             whitelistEnabled |-> FALSE, whitelistFiles |-> files]>> :
            files \in {<<artX, artMissing>>}}
    \cup {<<[baseUrl |-> LinkedBaseUrl, authToken |-> <<>>,
             whitelistEnabled |-> TRUE, whitelistFiles |-> files]>> :
            files \in Whitelists}

IndexListings ==
    {<<>>,
     <<[relativePath |-> artX], [relativePath |-> remoteOnly]>>}

IndexResponses ==
    {[threw |-> TRUE, status |-> 0, body |-> [parses |-> FALSE]],
     [threw |-> FALSE, status |-> 404,
      body |-> [parses |-> TRUE, itemsIsArray |-> FALSE, items |-> <<>>]],
     [threw |-> FALSE, status |-> 199,
      body |-> [parses |-> TRUE, itemsIsArray |-> TRUE, items |-> <<>>]],
     [threw |-> FALSE, status |-> 300,
      body |-> [parses |-> TRUE, itemsIsArray |-> TRUE, items |-> <<>>]],
     [threw |-> FALSE, status |-> 299,
      body |-> [parses |-> TRUE, itemsIsArray |-> TRUE,
                items |-> <<[relativePath |-> remoteOnly]>>]],
     [threw |-> FALSE, status |-> 200, body |-> [parses |-> FALSE]],
     [threw |-> FALSE, status |-> 200,
      body |-> [parses |-> TRUE, itemsIsArray |-> FALSE, items |-> <<>>]]}
    \cup {[threw |-> FALSE, status |-> 200,
           body |-> [parses |-> TRUE, itemsIsArray |-> TRUE, items |-> items]] :
            items \in IndexListings}

HtmlListings ==
    {<<>>,
     <<<<"..", "/">>, <<"?", "C=N">>, photoB, notesTxt, artX, remoteOnly>>,
     <<photoB, pngName, photoB>>}

HtmlResponses ==
    {[threw |-> TRUE, status |-> 0, body |-> [hrefs |-> <<>>]],
     [threw |-> FALSE, status |-> 500, body |-> [hrefs |-> <<>>]],
     [threw |-> FALSE, status |-> 199, body |-> [hrefs |-> <<photoB>>]],
     [threw |-> FALSE, status |-> 300, body |-> [hrefs |-> <<photoB>>]],
     [threw |-> FALSE, status |-> 299, body |-> [hrefs |-> <<photoB>>]]}
    \cup {[threw |-> FALSE, status |-> 200, body |-> [hrefs |-> hrefs]] :
            hrefs \in HtmlListings}

\* between two runs the user, the bridge and the vault may have changed things
Reconfigure ==
    /\ rs.pc = "done"
    /\ \E linked \in LinkedContexts : rs' = Idle(linked)
    /\ \E value \in {<<"w">>, <<"x">>, <<>>} :
       \E remote \in BOOLEAN :
       \E url \in {<<"http:", "/", "/", "h">>, <<>>} :
          settings' = [settings EXCEPT !.imageFolderPath = value,
                                       !.useRemoteIndex = remote,
                                       !.serverBaseUrl = url]
    /\ \E gone \in SUBSET {<<"w", "/">> \o artX} : vaultFiles' = ResolveFiles \ gone
    /\ UNCHANGED <<hostBasePath, pickerVars>>

InitResolve ==
    /\ settings = [serverBaseUrl |-> <<"http:", "/", "/", "h">>,
                   imageFolderPath |-> <<"w">>,
                   useRemoteIndex |-> FALSE]
    /\ vaultFiles = ResolveFiles
    /\ hostBasePath = <<"/", "v">>
    /\ overlayOpen = FALSE
    /\ grid = <<>>
    /\ statusText = <<>>
    /\ itemCount = 0
    /\ renderToken = 0
    /\ renderQueue = <<>>
    /\ cachedKey = <<>>
    /\ cachedItems = <<>>
    /\ cachedError = <<>>
    /\ idleCallbacks = [t \in 0..(MaxToken + 1) |-> 0]
    /\ lookup = NoStep
    /\ passItems = <<>>
    /\ rs \in {Idle(linked) : linked \in LinkedContexts}

NextResolve ==
    \/ LoadImageItems
    \/ \E response \in IndexResponses : IndexResponse(response)
    \/ \E response \in HtmlResponses : HtmlResponse(response)
    \/ Reconfigure

SpecResolve == InitResolve /\ [][NextResolve]_vars

-----------------------------------------------------------------------------
(* The cache key as a function of its inputs (specification SpecKey): two  *)
(* configurations are drawn and their keys computed.                       *)

KeyStrings == {<<"a">>, <<"b">>, <<"a", "|", "b">>, <<"b", "|", "b">>}

KeyInputs ==
    [preferRemote : BOOLEAN,
     hostSettings : [serverBaseUrl : KeyStrings, imageFolderPath : KeyStrings,
                     authToken : {<<>>, <<"t">>}],
     whitelistKey : {<<>>, <<"k">>}]

\* the settings record of an input, the toggle being what decides the mode
settingsOf(input) ==
    [serverBaseUrl |-> input.hostSettings.serverBaseUrl,
     imageFolderPath |-> input.hostSettings.imageFolderPath,
     authToken |-> input.hostSettings.authToken,
     useRemoteIndex |-> input.preferRemote]

ComputeCacheKeys ==
    /\ rs.pc = "input"
    /\ rs' = [rs EXCEPT
                 !.pc = "keys",
                 !.keyA = getCacheKeyWithWhitelist(rs.a.preferRemote, rs.a.hostSettings,
                                                   rs.a.whitelistKey),
                 !.keyB = getCacheKeyWithWhitelist(rs.b.preferRemote, rs.b.hostSettings,
                                                   rs.b.whitelistKey),
                 !.shortKeyA = getCacheKey(settingsOf(rs.a)),
                 !.shortKeyB = getCacheKey(settingsOf(rs.b))]
    /\ UNCHANGED <<settings, vaultFiles, hostBasePath, pickerVars>>

InitKey ==
    /\ settings = [serverBaseUrl |-> <<"a">>, imageFolderPath |-> <<"b">>,
                   useRemoteIndex |-> FALSE]
    /\ vaultFiles = {}
    /\ hostBasePath = <<"/", "v">>
    /\ overlayOpen = FALSE
    /\ grid = <<>>
    /\ statusText = <<>>
    /\ itemCount = 0
    /\ renderToken = 0
    /\ renderQueue = <<>>
    /\ cachedKey = <<>>
    /\ cachedItems = <<>>
    /\ cachedError = <<>>
    /\ idleCallbacks = [t \in 0..(MaxToken + 1) |-> 0]
    /\ lookup = NoStep
    /\ passItems = <<>>
    /\ \E a \in KeyInputs, b \in KeyInputs :
          rs = [pc |-> "input", a |-> a, b |-> b, keyA |-> <<>>, keyB |-> <<>>,
                shortKeyA |-> <<>>, shortKeyB |-> <<>>]

NextKey == ComputeCacheKeys

SpecKey == InitKey /\ [][NextKey]_vars

\* the components the key is a function of: mode, effective base URL,
\* effective auth token, folder path, whitelist fingerprint
keyComponents(input) ==
    <<input.preferRemote,
      IF input.preferRemote THEN trim(input.hostSettings.serverBaseUrl) ELSE <<>>,
      IF input.preferRemote THEN trim(input.hostSettings.authToken) ELSE <<>>,
      trim(input.hostSettings.imageFolderPath),
      input.whitelistKey>>

\* the components the three-part key reads
shortKeyComponents(input) ==
    <<input.preferRemote,
      IF input.preferRemote THEN trim(input.hostSettings.serverBaseUrl) ELSE <<>>,
      trim(input.hostSettings.imageFolderPath)>>

\* C9: the cache key is a function of its components and differs whenever
\* one component differs, also for values that hold the separator "|".
C9_KeyIsInjective ==
    rs.pc = "keys" =>
        /\ (keyComponents(rs.a) = keyComponents(rs.b)) <=> (rs.keyA = rs.keyB)
        /\ (shortKeyComponents(rs.a) = shortKeyComponents(rs.b))
              <=> (rs.shortKeyA = rs.shortKeyB)

-----------------------------------------------------------------------------
(* ui/background-picker-overlay.ts: findBestGridLayout.  A number is a     *)
(* fraction [n, d] with d > 0; the arithmetic is exact.                     *)

RECURSIVE Gcd(_, _)
Gcd(a, b) == IF b = 0 THEN a ELSE Gcd(b, a % b)

\* fractions are kept in lowest terms
Frac(n, d) ==
    LET g == Gcd(IF n < 0 THEN -n ELSE n, d)
    IN  [n |-> n \div g, d |-> d \div g]
Whole(k) == Frac(k, 1)
Minus(a, b) == Frac(a.n * b.d - b.n * a.d, a.d * b.d)
Times(a, b) == Frac(a.n * b.n, a.d * b.d)
\* a / b for b > 0
Over(a, b) == Frac(a.n * b.d, a.d * b.n)
Below(a, b) == a.n * b.d < b.n * a.d
Same(a, b) == a.n * b.d = b.n * a.d
AtMost(a, b) == a.n * b.d <= b.n * a.d
\* Math.min, Math.max
MathMin(a, b) == IF Below(b, a) THEN b ELSE a
MathMax(a, b) == IF Below(a, b) THEN b ELSE a
\* Math.ceil(count / columns) for positive integers
CeilDiv(count, columns) == (count + columns - 1) \div columns

\* a comparison that also takes a candidate of equal area
improvesOrEquals(area, bestArea) == ~Below(area, bestArea)

\* findBestGridLayout, line 546: `area > bestArea`
improves(area, bestArea) == Below(bestArea, area)

\* a fallback without the floor of 1
fallbackRowHeightUnfloored(count, height, gap) ==
    Over(Minus(height, Times(gap, Whole(count - 1))), Whole(count))

\* findBestGridLayout, lines 553-555: the row height when no candidate was taken
fallbackRowHeight(count, height, gap) ==
    MathMax(Over(Minus(height, Times(gap, Whole(count - 1))), Whole(count)), Whole(1))

\* one pass of the loop body for a column count: the best so far, updated
layoutCandidate(best, columns, count, width, height, aspect, gap) ==
    LET rows == CeilDiv(count, columns)
        totalGapWidth == Times(gap, Whole(IF columns - 1 > 0 THEN columns - 1 ELSE 0))
        totalGapHeight == Times(gap, Whole(IF rows - 1 > 0 THEN rows - 1 ELSE 0))
        availableWidth == Minus(width, totalGapWidth)
        availableHeight == Minus(height, totalGapHeight)
        maxTileWidth == Over(availableWidth, Whole(columns))
        maxTileHeight == Over(availableHeight, Whole(rows))
        tileHeight == MathMin(maxTileHeight, Over(maxTileWidth, aspect))
        tileWidth == Times(tileHeight, aspect)
        area == Times(tileWidth, tileHeight)
    IN  IF availableWidth.n <= 0 \/ availableHeight.n <= 0 THEN best
        ELSE IF tileHeight.n <= 0 \/ tileWidth.n <= 0 THEN best
        ELSE IF improves(area, best.bestArea)
        THEN [bestColumns |-> columns, bestRowHeight |-> tileHeight, bestArea |-> area]
        ELSE best

\* the loop `for (columns = 1; columns <= count; columns += 1)`
RECURSIVE layoutLoop(_, _, _, _, _, _, _)
layoutLoop(best, columns, count, width, height, aspect, gap) ==
    IF columns > count THEN best
    ELSE layoutLoop(layoutCandidate(best, columns, count, width, height, aspect, gap),
                    columns + 1, count, width, height, aspect, gap)

findBestGridLayout(count, width, height, aspect, gap) ==
    LET best == layoutLoop([bestColumns |-> 1, bestRowHeight |-> Whole(0),
                            bestArea |-> Whole(0)],
                           1, count, width, height, aspect, gap)
    IN  [columns |-> best.bestColumns,
         rowHeight |-> IF best.bestRowHeight.n = 0
                       THEN fallbackRowHeight(count, height, gap)
                       ELSE best.bestRowHeight]

-----------------------------------------------------------------------------
(* utils/image-utils.ts as functions of their inputs (specification        *)
(* SpecUtil): a vault and a folder to scan, a base path and a folder path   *)
(* to resolve, a name to classify.                                          *)

ScanCandidates ==
    {<<"w", "/", "a", ".", "png">>, <<"w", "/", "b", ".", "txt">>,
     <<"w", "/", "c", ".", "jpg">>, <<"w", "/", "art", "/", "b", ".", "PNG">>,
     <<"w", "/", "art", "/", "a", ".", "png">>, <<"o", "/", "d", ".", "png">>,
     <<"w", "/", "png">>}

ScanFolders == {<<"w">>, <<" ", "w", "/">>, <<"w", "/", "art">>, <<"o">>}

BasePaths == {<<>>, <<"/", "v">>, <<"/", "v", "/">>, <<"c", ":", "/", "v">>}

FolderInputs ==
    {<<>>, <<" ">>, <<"w">>, <<"/">>,
     <<"/", "v">>, <<"/", "v", "/">>, <<"/", "v", "/", "w">>,
     <<" ", "/", "v", "/", "w", " ">>, <<"/", "v", "/", "/", "w", "/", "art">>,
     <<"/", "v", "X">>, <<"/", "v", "X", "/", "w">>, <<"/", "u", "/", "w">>,
     <<"c", ":", "/", "v", "/", "w">>, <<"c", ":", "/", "v">>}

NameInputs ==
    {<<"a", ".", "png">>, <<"a", ".", "PNG">>, <<"a", ".", "jpeg">>, <<"a", ".", "webp">>,
     <<"a", ".", "gif">>, <<"a", ".", "bmp">>, <<"a", ".", "svg">>, <<"a", ".", "avif">>,
     <<"a", ".", "tif">>, <<"a", ".", "tiff">>, <<"a", ".", "JPG">>,
     <<"a", ".", "txt">>, <<"a", ".", "png", ".", "txt">>, <<"a", ".", "tar", ".", "gif">>,
     <<"a", ".">>, <<"a">>, <<"png">>, <<"jpg">>}

\* the inputs of the layout: pixel sizes of the content box, the window's
\* aspect ratio, the grid gap
LayoutInputs ==
    [count : 1..MaxCount,
     width : {Whole(1), Whole(10), Whole(24), Whole(30)},
     height : {Whole(1), Whole(10), Whole(15), Whole(30)},
     aspect : {Frac(1, 2), Whole(1), Frac(3, 2), Whole(2)},
     gap : {Whole(0), Whole(12), Whole(50)}]

UrlBases ==
    {<<"http:", "/", "/", "h">>, <<"http:", "/", "/", "h", "/">>,
     <<"http:", "/", "/", "h", "/", "dir">>, <<"http:", "/", "/", "h", "/", "dir", "/">>,
     <<"http:", "/", "/", "h", "/", "dir", "/", "/">>}

UrlRelativePaths ==
    {<<"a", ".", "png">>, <<"art", "/", "a", ".", "png">>,
     <<"art", "/", "/", "a", ".", "png">>, <<"art", "/">>, <<"a">>,
     <<"/", "a", ".", "png">>, <<"/", "/", "art", "/", "a", ".", "png">>,
     <<".", ".", "/", "a", ".", "png">>, <<"art", "/", ".", "/", "a", ".", "png">>,
     <<"art", "/", ".", ".", "/", "a", ".", "png">>, <<"art", "/", ".", ".">>,
     <<"a", " ", "b", ".", "png">>, <<"a", "%20", "b", ".", "png">>,
     <<"a", "|", "b", ".", "png">>}

UtilInput(pc, folderPath, name) ==
    [pc |-> pc, folderPath |-> folderPath, name |-> name,
     scanned |-> <<>>, resolved |-> <<>>, verdict |-> <<>>,
     baseUrl |-> <<>>, url |-> <<>>, recovered |-> <<>>,
     count |-> 0, width |-> Whole(0), height |-> Whole(0), aspect |-> Whole(1),
     gap |-> Whole(0), layout |-> <<>>]

\* getVaultImageItems(app, "", folderPath) on the vault drawn
ScanFolder ==
    /\ rs.pc = "scan"
    /\ rs' = [rs EXCEPT !.pc = "scanned",
                        !.scanned = <<getVaultImageItems(vaultFiles, hostBasePath, <<>>,
                                                         rs.folderPath)>>]
    /\ UNCHANGED <<settings, vaultFiles, hostBasePath, pickerVars>>

\* buildUrlFromRelative(baseUrl, relativePath), then the relative path of the
\* URL against the same base, its segments decoded
RoundTrip ==
    /\ rs.pc = "url"
    /\ \E url \in {buildUrlFromRelative(rs.baseUrl, rs.name)} :
          rs' = [rs EXCEPT !.pc = "recovered",
                           !.url = url,
                           !.recovered = decodePathSegments(
                                             getRelativePathFromUrl(rs.baseUrl, url))]
    /\ UNCHANGED <<settings, vaultFiles, hostBasePath, pickerVars>>

\* findBestGridLayout(count, width, height, aspect, gap)
ComputeLayout ==
    /\ rs.pc = "layout"
    /\ rs' = [rs EXCEPT !.pc = "laidOut",
                        !.layout = <<findBestGridLayout(rs.count, rs.width, rs.height,
                                                        rs.aspect, rs.gap)>>]
    /\ UNCHANGED <<settings, vaultFiles, hostBasePath, pickerVars>>

\* resolveVaultFolderPath(app, folderPath) on the base path drawn
ResolveFolder ==
    /\ rs.pc = "resolve"
    /\ rs' = [rs EXCEPT !.pc = "resolved",
                        !.resolved = <<resolveVaultFolderPath(hostBasePath, rs.folderPath)>>]
    /\ UNCHANGED <<settings, vaultFiles, hostBasePath, pickerVars>>

\* the three classifiers on the name drawn: of a vault file, of a listed
\* link's file name, of a whitelisted path
ClassifyName ==
    /\ rs.pc = "classify"
    /\ rs' = [rs EXCEPT !.pc = "classified",
                        !.verdict = <<[isImageFile |-> isImageFile(rs.name),
                                       isImageExtension |-> isImageExtension(rs.name),
                                       isImagePath |-> isImagePath(rs.name)]>>]
    /\ UNCHANGED <<settings, vaultFiles, hostBasePath, pickerVars>>

InitUtil ==
    /\ settings = [serverBaseUrl |-> <<>>, imageFolderPath |-> <<"w">>,
                   useRemoteIndex |-> FALSE]
    /\ overlayOpen = FALSE
    /\ grid = <<>>
    /\ statusText = <<>>
    /\ itemCount = 0
    /\ renderToken = 0
    /\ renderQueue = <<>>
    /\ cachedKey = <<>>
    /\ cachedItems = <<>>
    /\ cachedError = <<>>
    /\ idleCallbacks = [t \in 0..(MaxToken + 1) |-> 0]
    /\ lookup = NoStep
    /\ passItems = <<>>
    /\ \/ /\ vaultFiles \in SUBSET ScanCandidates
          /\ hostBasePath = <<"/", "v">>
          /\ \E folderPath \in ScanFolders : rs = UtilInput("scan", folderPath, <<>>)
       \/ /\ vaultFiles = {}
          /\ hostBasePath \in BasePaths
          /\ \E folderPath \in FolderInputs : rs = UtilInput("resolve", folderPath, <<>>)
       \/ /\ vaultFiles = {}
          /\ hostBasePath = <<"/", "v">>
          /\ \E name \in NameInputs : rs = UtilInput("classify", <<>>, name)
       \/ /\ vaultFiles = {}
          /\ hostBasePath = <<"/", "v">>
          /\ \E baseUrl \in UrlBases : \E relativePath \in UrlRelativePaths :
                rs = [UtilInput("url", <<>>, relativePath) EXCEPT !.baseUrl = baseUrl]
       \/ /\ vaultFiles = {}
          /\ hostBasePath = <<"/", "v">>
          /\ \E input \in LayoutInputs :
                rs = [UtilInput("layout", <<>>, <<>>) EXCEPT
                         !.count = input.count, !.width = input.width,
                         !.height = input.height, !.aspect = input.aspect,
                         !.gap = input.gap]

NextUtil ==
    \/ ScanFolder
    \/ RoundTrip
    \/ ComputeLayout
    \/ ResolveFolder
    \/ ClassifyName

SpecUtil == InitUtil /\ [][NextUtil]_vars

-----------------------------------------------------------------------------
(* The cache and the render passes of the picker (specification Spec).     *)

\* isVaultCacheValid: every cached entry still has its file in the vault
isVaultCacheValid(files, items) ==
    \A i \in 1..Len(items) :
        /\ items[i].file # <<>>
        /\ isTFile(files, items[i].file[1])

relativePathsOf(items) == [i \in 1..Len(items) |-> items[i].relativePath]

isPrefixOf(a, b) == Len(a) <= Len(b) /\ SubSeq(b, 1, Len(a)) = a

C2_CacheMiss ==
    (lookup.kind = "renderGrid"
        /\ (lookup.forceRefresh \/ <<lookup.cacheKey>> # lookup.keyBefore))
    => /\ lookup.invoked
       /\ lookup.result = getVaultImageItems(vaultFiles, hostBasePath, <<>>,
                                             settings.imageFolderPath)
       /\ passItems = lookup.result.items

C2_Witness ==
    /\ lookup.kind = "renderGrid" /\ ~lookup.forceRefresh
    /\ lookup.keyBefore # <<>>
    /\ <<lookup.cacheKey>> # lookup.keyBefore
    /\ lookup.itemsBefore # <<>>
    /\ lookup.result.items # <<>>
    /\ lookup.result.items # lookup.itemsBefore

\* C3: a callback scheduled before the render token was advanced appends no
\* tile, leaves the status text alone and schedules no further callback.
C3_SupersededCallbackIsNoOp ==
    (lookup.kind = "callback" /\ lookup.scheduledAt < lookup.firedAt)
    => /\ lookup.appended = 0
       /\ ~lookup.rescheduled
       /\ statusText = lookup.statusBefore

\* C4: the grid holds exactly the first `index` items of the most recently
\* started pass, in list order and without duplicates, and while the token
\* stands the grid only grows by appending.
C4_GridIsPassPrefix ==
    /\ ~overlayOpen => grid = <<>>
    /\ (overlayOpen /\ renderQueue = <<>>) => grid = relativePathsOf(passItems)
    /\ (overlayOpen /\ renderQueue # <<>>) =>
          /\ renderQueue[1].items = passItems
          /\ grid = relativePathsOf(SubSeq(passItems, 1, renderQueue[1].index))
    /\ \A i, j \in 1..Len(grid) : grid[i] = grid[j] => i = j

C4_NoInterleaving ==
    /\ []C4_GridIsPassPrefix
    /\ [][renderToken' = renderToken => isPrefixOf(grid, grid')]_vars

C4_Witness ==
    /\ overlayOpen
    /\ renderToken >= 2
    /\ renderQueue # <<>>
    /\ renderQueue[1].index = batchSize
    /\ Len(grid) = batchSize
    /\ lookup.kind = "callback" /\ lookup.scheduledAt < lookup.firedAt

\* C10: a renderGrid whose key matches the stored key, while a cached entry's
\* file is no longer in the vault, does not use the cache: it invokes the
\* resolver.
C10_StaleCacheBypassed ==
    (lookup.kind = "renderGrid"
        /\ <<lookup.cacheKey>> = lookup.keyBefore
        /\ ~isVaultCacheValid(vaultFiles, lookup.itemsBefore))
    => lookup.invoked

C12_RemoteNeverFromCache ==
    (lookup.kind = "renderGrid" /\ startsWith(lookup.cacheKey, <<"remote">>))
    => lookup.invoked

\* C13: renderToken starts at 0, and every step leaves it alone except a
\* renderGrid call and a close of an open picker, each of which adds exactly 1.
C13_TokenMonotonic ==
    /\ renderToken = 0
    /\ [][IF lookup'.kind = "renderGrid" \/ (overlayOpen /\ ~overlayOpen')
          THEN renderToken' = renderToken + 1
          ELSE renderToken' = renderToken]_vars

C13_Witness ==
    /\ renderToken = 3
    /\ ~overlayOpen
    /\ cachedKey # <<>>

\* C16: after every lookup the status is the error message exactly when the
\* result carries one and "No images found." exactly when it carries neither
\* error nor items; in both cases no queue is started, no callback is
\* scheduled for the pass and the grid stays empty.
C16_EmptyIsNotError ==
    /\ lookup.kind = "renderGrid" =>
          /\ (statusText = lookup.result.errorMessage)
                <=> (lookup.result.errorMessage # <<>>)
          /\ (statusText = <<"No images found.">>)
                <=> (lookup.result.errorMessage = <<>> /\ lookup.result.items = <<>>)
          /\ (lookup.result.errorMessage # <<>> \/ lookup.result.items = <<>>) =>
                /\ renderQueue = <<>> /\ grid = <<>> /\ itemCount = 0
                /\ idleCallbacks[renderToken] = 0
    /\ (overlayOpen /\ statusText = <<"No images found.">>) =>
          (grid = <<>> /\ cachedError = <<>>)
    /\ (overlayOpen /\ statusText = <<"Folder not found: ", "x">>) =>
          (grid = <<>> /\ cachedError = statusText)

C16_Witness ==
    /\ lookup.kind = "renderGrid" /\ ~lookup.invoked
    /\ lookup.result = [items |-> <<>>, errorMessage |-> <<>>]
    /\ statusText = <<"No images found.">>
    /\ \E t \in 0..MaxToken : idleCallbacks[t] > 0

-----------------------------------------------------------------------------
(* The source priority of the resolver (specification SpecResolve).        *)

htmlAttempted == \E i \in 1..Len(rs.attempts) : rs.attempts[i] = "html"

relativePathSet(items) == {items[i].relativePath : i \in 1..Len(items)}

hasImageExtension(name) ==
    \E i \in 1..Len(name) :
       /\ name[i] = "."
       /\ \A j \in (i + 1)..Len(name) : name[j] # "."
       /\ toLowerCase(SubSeq(name, i + 1, Len(name))) \in IMAGE_EXTENSIONS

\* the whitelist entries, as folder-relative paths, that carry an image
\* extension and are files under the configured folder
whitelistedLocalImages ==
    LET files == rs.linked[1].whitelistFiles
        folder == resolveVaultFolderPath(hostBasePath, settings.imageFolderPath)
    IN  {p \in {dropWhileHead(files[i], "/") : i \in 1..Len(files)} :
            /\ hasImageExtension(getFilenameFromPath(p))
            /\ folder.errorMessage = <<>>
            /\ (folder.folderPath \o <<"/">> \o p) \in vaultFiles}

\* C7: linked, whitelist enabled: the relative paths of the result are a
\* subset of the whitelist entries that have an image extension and exist as
\* files under the configured folder; a whitelisted file that is missing
\* locally and a local file that is not whitelisted never appear, and every
\* entry is backed by its local file.
C7_WhitelistIsStrictFilter ==
    (rs.source = "whitelist" /\ rs.pc = "done") =>
        /\ rs.requests = <<>>
        /\ relativePathSet(rs.result[1].items) \subseteq whitelistedLocalImages
        /\ \A i \in 1..Len(rs.result[1].items) :
              /\ rs.result[1].items[i].file # <<>>
              /\ rs.result[1].items[i].file[1] \in vaultFiles
        /\ (rs.linked[1].whitelistFiles = <<artX, artMissing>>
                /\ settings.imageFolderPath = <<"w">>
                /\ (<<"w", "/">> \o artX) \in vaultFiles) =>
              relativePathSet(rs.result[1].items) = {artX}

\* C8: not linked, remote index not requested: the result is the local folder
\* scan's, error included, and no request is issued, whatever the vault holds.
C8_VaultScanOnly ==
    (rs.linked = <<>> /\ ~settings.useRemoteIndex /\ rs.pc # "idle") =>
        /\ rs.source = "vault" /\ rs.pc = "done"
        /\ rs.requests = <<>> /\ rs.attempts = <<>>
        /\ rs.result = <<getVaultImageItems(vaultFiles, hostBasePath, <<>>,
                                            settings.imageFolderPath)>>
        /\ ~isTFolder(normalizePath(settings.imageFolderPath)) =>
              (rs.result[1].items = <<>> /\ rs.result[1].errorMessage # <<>>)

C8_Witness ==
    /\ rs.linked = <<>> /\ ~settings.useRemoteIndex /\ rs.pc = "done"
    /\ settings.imageFolderPath = <<"x">>
    /\ settings.serverBaseUrl # <<>>
    /\ rs.result = <<[items |-> <<>>,
                      errorMessage |-> <<"Folder not found: ", "x">>]>>

\* the results the run has obtained so far, from every function it called
obtainedResults ==
    {r[1] : r \in {rs.localResult, rs.indexResult, rs.htmlResult, rs.result} \ {<<>>}}

\* C14: every result of getVaultImageItems, getRemoteImageItems,
\* getRemoteIndexItems and buildImageItemsFromRelativePaths, and the cache
\* entry stored for it, has no items when its errorMessage is non-empty.
C14_ErrorMeansNoItems ==
    /\ \A r \in obtainedResults : r.errorMessage # <<>> => r.items = <<>>
    /\ \A linked \in LinkedContexts : \A baseUrl \in {<<>>, LinkedBaseUrl} :
          linked # <<>> =>
             LET r == buildImageItemsFromRelativePaths(
                          vaultFiles, hostBasePath, settings.imageFolderPath,
                          linked[1].whitelistFiles, baseUrl)
             IN  r.errorMessage # <<>> => r.items = <<>>
    /\ \A r \in obtainedResults :
          LET entry == cacheEntry(getCacheKey(settings), r)
          IN  entry.error # <<>> => entry.items = <<>>

C14_Witness ==
    /\ rs.pc = "done" /\ rs.source = "remote"
    /\ settings.imageFolderPath = <<>>
    /\ rs.indexResult[1].errorMessage # <<>>
    /\ rs.htmlResult[1].errorMessage = <<>>
    /\ rs.result[1].items # <<>> /\ rs.result[1].errorMessage = <<>>

\* what a remote fetch must hand back for a response
expectedFetchResult(response, result, failureMessage) ==
    /\ response.threw =>
          result = [items |-> <<>>, errorMessage |-> <<failureMessage>>]
    /\ (~response.threw /\ ~(response.status \in 200..299)) =>
          result = [items |-> <<>>,
                    errorMessage |-> <<"HTTP error: ", ToString(response.status)>>]
    /\ (~response.threw /\ response.status \in 200..299) =>
          (result.errorMessage # <<>> => result.items = <<>>)

\* C15: every outcome of a request gives a result value: a status outside
\* 200..299 an empty list with "HTTP error: {status}", a thrown request or an
\* unparsable index an empty list with the function's failure message, and an
\* empty base URL an error with no request issued.
C15_RemoteFailuresAreResults ==
    /\ rs.indexResponse # <<>> =>
          /\ rs.indexResult # <<>>
          /\ expectedFetchResult(rs.indexResponse[1], rs.indexResult[1],
                                 "Failed to fetch the JSON index.")
          /\ (~rs.indexResponse[1].threw /\ rs.indexResponse[1].status \in 200..299
                  /\ ~rs.indexResponse[1].body.parses) =>
                rs.indexResult[1] = [items |-> <<>>,
                                     errorMessage |-> <<"Failed to fetch the JSON index.">>]
    /\ rs.htmlResponse # <<>> =>
          /\ rs.htmlResult # <<>>
          /\ expectedFetchResult(rs.htmlResponse[1], rs.htmlResult[1],
                                 "Failed to fetch the directory listing.")
    /\ (rs.attempts # <<>> /\ trim(remoteBaseUrl(rs)) = <<>>) =>
          /\ rs.requests = <<>>
          /\ rs.indexResponse = <<>> /\ rs.htmlResponse = <<>>
          /\ rs.indexResult = <<[items |-> <<>>, errorMessage |-> <<"Base URL is empty.">>]>>
          /\ htmlAttempted =>
                rs.htmlResult = <<[items |-> <<>>, errorMessage |-> <<"Base URL is empty.">>]>>
    /\ (rs.attempts # <<>> /\ rs.pc = "done") => rs.result # <<>>

C15_Witness ==
    /\ rs.pc = "done"
    /\ rs.indexResponse # <<>> /\ rs.indexResponse[1].threw
    /\ rs.htmlResponse # <<>> /\ ~rs.htmlResponse[1].threw
    /\ rs.htmlResponse[1].status = 300
    /\ rs.result = <<[items |-> <<>>, errorMessage |-> <<"HTTP error: ", "300">>]>>

\* C18: no two entries of one result share a relativePath.
C18_RelativePathUnique ==
    \A r \in obtainedResults :
       \A i, j \in 1..Len(r.items) :
          r.items[i].relativePath = r.items[j].relativePath => i = j

-----------------------------------------------------------------------------
(* The utilities as functions (specification SpecUtil).                    *)

\* the files at any depth under a folder
filesUnder(files, folder) == {f \in files : startsWith(f, folder \o <<"/">>)}

\* C17: a scan of an existing folder returns exactly one entry per file at
\* any depth under it whose extension is a supported image extension, sorted
\* ascending by displayName; a.png, b.txt, c.jpg give a.png then c.jpg.
C17_ScanIsExactAndSorted ==
    rs.pc = "scanned" =>
        LET result == rs.scanned[1]
            folder == normalizePath(trim(rs.folderPath))
            expected == {f \in filesUnder(vaultFiles, folder) :
                            hasImageExtension(fileName(f))}
        IN  /\ result.errorMessage = <<>>
            /\ Len(result.items) = Cardinality(expected)
            /\ {result.items[i].file[1] : i \in 1..Len(result.items)} = expected
            /\ \A i \in 1..Len(result.items) :
                  folder \o <<"/">> \o result.items[i].relativePath
                      = result.items[i].file[1]
            /\ \A i \in 1..(Len(result.items) - 1) :
                  localeCompare(result.items[i].displayName,
                                result.items[i + 1].displayName) <= 0
            /\ (folder = <<"w">>
                    /\ vaultFiles = {<<"w", "/", "a", ".", "png">>,
                                     <<"w", "/", "b", ".", "txt">>,
                                     <<"w", "/", "c", ".", "jpg">>}) =>
                  relativePathsOf(result.items)
                      = <<<<"a", ".", "png">>, <<"c", ".", "jpg">>>>

C17_Witness ==
    /\ rs.pc = "scanned" /\ rs.folderPath = <<" ", "w", "/">>
    /\ vaultFiles = ScanCandidates
    /\ Len(rs.scanned[1].items) = 4
    /\ rs.scanned[1].items[4].relativePath = <<"c", ".", "jpg">>
    /\ \E i \in 1..4 : rs.scanned[1].items[i].relativePath = <<"art", "/", "b", ".", "PNG">>

\* the absolute input lies strictly below the base: base, "/", and more
strictDescendant(input, base) ==
    /\ Len(input) > Len(base) + 1
    /\ SubSeq(input, 1, Len(base)) = base
    /\ input[Len(base) + 1] = "/"

\* C19: an empty folder path fails; an absolute one fails without a base
\* path ("requires a desktop"), fails when it is not below the base, a sibling
\* such as /vX for base /v included ("must be inside the vault"), fails when
\* it is the base itself (vault root), and otherwise resolves, with no error,
\* to the path relative to the base.
C19_AbsolutePathInsideVault ==
    rs.pc = "resolved" =>
        LET r == rs.resolved[1]
            raw == trim(rs.folderPath)
            input == normalizeAbsolutePath(raw)
            base == normalizeAbsolutePath(hostBasePath)
        IN  /\ raw = <<>> =>
                  r = [folderPath |-> <<>>, errorMessage |-> <<"Image folder path is empty.">>]
            /\ r.errorMessage # <<>> => r.folderPath = <<>>
            /\ (raw # <<>> /\ isAbsolutePath(raw)) =>
                  /\ hostBasePath = <<>> =>
                        r.errorMessage = <<"Absolute paths require a desktop vault.">>
                  /\ (hostBasePath # <<>> /\ input = base) =>
                        r.errorMessage = <<"Image folder path resolves to the vault root.">>
                  /\ (hostBasePath # <<>> /\ input # base /\ ~strictDescendant(input, base)) =>
                        r.errorMessage = <<"Folder must be inside the vault.">>
                  /\ (hostBasePath # <<>> /\ strictDescendant(input, base)) =>
                        r = [folderPath |-> SubSeq(input, Len(base) + 2, Len(input)),
                             errorMessage |-> <<>>]
            /\ (hostBasePath = <<"/", "v">> /\ raw = <<"/", "v", "X">>) =>
                  r.errorMessage = <<"Folder must be inside the vault.">>

C19_Witness ==
    /\ rs.pc = "resolved"
    /\ hostBasePath = <<"/", "v", "/">>
    /\ rs.folderPath = <<"/", "v", "/", "/", "w", "/", "art">>
    /\ rs.resolved = <<[folderPath |-> <<"w", "/", "art">>, errorMessage |-> <<>>]>>

\* C20: each classifier calls a name an image exactly when the name has an
\* extension that is, whatever its case, one of the ten supported ones; a
\* name with an unknown extension or without "." is not an image.
C20_ImageIffSupportedExtension ==
    rs.pc = "classified" =>
        /\ rs.verdict[1].isImageFile <=> hasImageExtension(rs.name)
        /\ rs.verdict[1].isImageExtension <=> hasImageExtension(rs.name)
        /\ rs.verdict[1].isImagePath <=> hasImageExtension(rs.name)

\* a path made only of ordinary characters and "/"
isPlainPath(path) ==
    \A i \in 1..Len(path) : path[i] \notin {" ", "%", "%20", "%25", "%7C", "|", "\\"}

\* a path with a segment "." or ".."
hasDotSegment(path) ==
    \E segment \in {<<".">>, <<".", ".">>, <<"..">>} :
       \E i \in 1..Len(split(path, "/")) : split(path, "/")[i] = segment

\* C22 as stated: for every base URL and every relative path of ordinary
\* characters and "/", the relative path of buildUrlFromRelative(base,
\* relative) against the same base, decoded, is the original relative path.
C22_RoundTripAnyPath ==
    (rs.pc = "recovered" /\ isPlainPath(rs.name)) => rs.recovered = rs.name

\* C22, amended: the round trip recovers the relative path without its
\* leading slashes, for a relative path of ordinary characters and "/" that
\* has no "." or ".." segment and a base URL that does not end in "//"; in
\* particular it recovers a path that does not begin with "/" unchanged.
C22_RoundTrip ==
    (rs.pc = "recovered" /\ isPlainPath(rs.name) /\ ~hasDotSegment(rs.name)
        /\ ~(Len(rs.baseUrl) > 4 /\ SubSeq(rs.baseUrl, Len(rs.baseUrl) - 1, Len(rs.baseUrl))
                                       = <<"/", "/">>)) =>
        /\ rs.recovered = dropWhileHead(rs.name, "/")
        /\ ~startsWith(rs.name, <<"/">>) => rs.recovered = rs.name

C22_Witness ==
    /\ rs.pc = "recovered"
    /\ rs.baseUrl = <<"http:", "/", "/", "h", "/", "dir">>
    /\ rs.name = <<"art", "/", "/", "a", ".", "png">>
    /\ rs.url = <<"http:", "/", "/", "h", "/", "dir", "/", "art", "/", "/", "a", ".", "png">>
    /\ rs.recovered = rs.name

\* the tile height a column count allows: the tighter of the two axes
tileHeightFor(columns) ==
    LET rows == CeilDiv(rs.count, columns)
    IN  MathMin(Over(Minus(rs.height, Times(rs.gap, Whole(rows - 1))), Whole(rows)),
                Over(Over(Minus(rs.width, Times(rs.gap, Whole(columns - 1))),
                          Whole(columns)),
                     rs.aspect))

\* tileHeight^2 * aspect
tileAreaFor(columns) ==
    Times(Times(tileHeightFor(columns), tileHeightFor(columns)), rs.aspect)

\* the column counts that leave positive width and height
layoutCandidates ==
    {columns \in 1..rs.count :
        /\ Below(Times(rs.gap, Whole(columns - 1)), rs.width)
        /\ Below(Times(rs.gap, Whole(CeilDiv(rs.count, columns) - 1)), rs.height)}

\* C23: the layout has 1 <= columns <= count and rowHeight > 0; without a
\* candidate it is one column with rowHeight max((height - gap*(count-1)) /
\* count, 1); for one tile it is one column with height min(height,
\* width / aspect).
C23_LayoutNeverDegenerate ==
    rs.pc = "laidOut" =>
        LET layout == rs.layout[1]
        IN  /\ layout.columns \in 1..rs.count
            /\ layout.rowHeight.n > 0 /\ layout.rowHeight.d > 0
            /\ layoutCandidates = {} =>
                  /\ layout.columns = 1
                  /\ AtMost(Whole(1), layout.rowHeight)
                  /\ \/ Same(layout.rowHeight, Whole(1))
                     \/ Same(Times(layout.rowHeight, Whole(rs.count)),
                             Minus(rs.height, Times(rs.gap, Whole(rs.count - 1))))
                  /\ AtMost(Over(Minus(rs.height, Times(rs.gap, Whole(rs.count - 1))),
                                 Whole(rs.count)),
                            layout.rowHeight)
            /\ rs.count = 1 =>
                  /\ layout.columns = 1
                  /\ Same(layout.rowHeight, MathMin(rs.height, Over(rs.width, rs.aspect)))

C23_Witness ==
    /\ rs.pc = "laidOut"
    /\ rs.count = 3 /\ rs.gap = Whole(12) /\ rs.width = Whole(10) /\ rs.height = Whole(10)
    /\ layoutCandidates = {}
    /\ rs.layout[1].columns = 1
    /\ Same(rs.layout[1].rowHeight, Whole(1))

\* C24: when some column count leaves positive width and height, the layout's
\* column count has a tile area no smaller than every other candidate's, is
\* the smallest column count of that area, and the row height is its tile
\* height.
C24_LayoutMaximizesArea ==
    (rs.pc = "laidOut" /\ layoutCandidates # {}) =>
        LET layout == rs.layout[1]
        IN  /\ layout.columns \in layoutCandidates
            /\ \A other \in layoutCandidates :
                  /\ AtMost(tileAreaFor(other), tileAreaFor(layout.columns))
                  /\ Same(tileAreaFor(other), tileAreaFor(layout.columns)) =>
                        layout.columns <= other
            /\ Same(layout.rowHeight, tileHeightFor(layout.columns))

C24_Witness ==
    /\ rs.pc = "laidOut"
    /\ rs.count = 2 /\ rs.gap = Whole(0) /\ rs.aspect = Whole(1)
    /\ rs.width = Whole(30) /\ rs.height = Whole(30)
    /\ Same(tileAreaFor(1), tileAreaFor(2))
    /\ rs.layout[1].columns = 1
    /\ Same(rs.layout[1].rowHeight, Whole(15))

-----------------------------------------------------------------------------
(* main.ts and integrations/local-vault-server.ts: the plugin's settings,  *)
(* their persistence and the Local Vault Server bridge (specification      *)
(* SpecBridge).  rs holds the bridge as the host sees it, the registered   *)
(* change handler, the settings on disk and the saveData calls in flight.  *)

LOCAL_VAULT_SERVER_API_VERSION == 1

\* the largest number of saveData calls in flight at once
MaxPending == 1

\* buildLocalVaultServerBaseUrl: `${protocol}://${host}:${port}`
buildLocalVaultServerBaseUrl(entry) ==
    LET protocol == IF entry.enableHttps THEN "https:" ELSE "http:"
        host == IF entry.host = "0.0.0.0" THEN "127.0.0.1" ELSE entry.host
    IN  <<protocol, "/", "/", host, ":", entry.port>>

\* a bridge lookup that trusts whatever version the bridge reports
getLocalVaultServerApiAnyVersion(bridge) ==
    IF ~bridge.plugins THEN <<>>
    ELSE IF ~bridge.plugin \/ ~bridge.getApi THEN <<>>
    ELSE IF ~bridge.api THEN <<>>
    ELSE <<[entries |-> bridge.entries]>>

\* getLocalVaultServerApi: the api, <<>> for null
getLocalVaultServerApi(bridge) ==
    IF ~bridge.plugins THEN <<>>
    ELSE IF ~bridge.plugin \/ ~bridge.getApi THEN <<>>
    ELSE IF ~bridge.api \/ bridge.apiVersion # LOCAL_VAULT_SERVER_API_VERSION THEN <<>>
    ELSE <<[entries |-> bridge.entries]>>

\* findLocalVaultServerEntry: the first entry of that id, <<>> for null
findLocalVaultServerEntry(entries, entryId) ==
    IF entryId = <<>> THEN <<>>
    ELSE LET found == SelectSeq(entries, LAMBDA entry : entry.id = entryId)
         IN  IF found = <<>> THEN <<>> ELSE <<found[1]>>

\* normalizeForCompare: trim, "\" to "/", no trailing "/"
normalizeForCompare(value) ==
    LET trimmed == trim(value)
    IN  dropWhileLast([i \in 1..Len(trimmed) |->
                          IF trimmed[i] = "\\" THEN "/" ELSE trimmed[i]], "/")

\* findMatchingServerEntry: the only entry, else the only one of the
\* configured base URL, else the only one serving the configured folder
findMatchingServerEntry(api, hostSettings) ==
    LET entries == api.entries
        baseUrl == trim(hostSettings.serverBaseUrl)
        urlMatches == SelectSeq(entries, LAMBDA entry :
                          buildLocalVaultServerBaseUrl(entry) = baseUrl)
        folderPath == normalizeForCompare(hostSettings.imageFolderPath)
        folderMatches == SelectSeq(entries, LAMBDA entry :
                             normalizeForCompare(entry.serveDir) = folderPath)
    IN  IF Len(entries) = 1 THEN <<entries[1]>>
        ELSE IF baseUrl # <<>> /\ Len(urlMatches) = 1 THEN <<urlMatches[1]>>
        ELSE IF folderPath # <<>> /\ Len(folderMatches) = 1 THEN <<folderMatches[1]>>
        ELSE <<>>

\* isLinkedToLocalServer
isLinkedToLocalServer(bridge, hostSettings) ==
    hostSettings.linkedServerEntryId # <<>> /\ getLocalVaultServerApi(bridge) # <<>>

\* getLinkedServerInfo: the linked context, <<>> for null
getLinkedServerInfo(bridge, hostSettings) ==
    LET api == getLocalVaultServerApi(bridge)
        found == findLocalVaultServerEntry(api[1].entries, hostSettings.linkedServerEntryId)
        entry == IF found # <<>> THEN found ELSE findMatchingServerEntry(api[1], hostSettings)
    IN  IF api = <<>> THEN <<>>
        ELSE IF entry = <<>> THEN <<>>
        ELSE <<[baseUrl |-> buildLocalVaultServerBaseUrl(entry[1]),
                authToken |-> entry[1].authToken,
                whitelistEnabled |-> entry[1].enableWhitelist,
                whitelistFiles |-> entry[1].whitelistFiles]>>

\* getLinkedWhitelistInfo of main.ts, of the bridge and the settings
getLinkedWhitelistInfoOfBridge(bridge, hostSettings) ==
    LET api == getLocalVaultServerApi(bridge)
        found == IF api = <<>> \/ hostSettings.linkedServerEntryId = <<>> THEN <<>>
                 ELSE findLocalVaultServerEntry(api[1].entries,
                                                hostSettings.linkedServerEntryId)
        entry == IF found # <<>> THEN found
                 ELSE IF api = <<>> THEN <<>>
                 ELSE findMatchingServerEntry(api[1], hostSettings)
    IN  IF entry = <<>> THEN [enabled |-> FALSE, files |-> <<>>]
        ELSE [enabled |-> entry[1].enableWhitelist, files |-> entry[1].whitelistFiles]

\* getLocalImageUrl: the resource URL of the file under the image folder
getLocalImageUrl(files, basePath, hostSettings, relativePath) ==
    LET folderPath == trim(hostSettings.imageFolderPath)
        resolvedFolder == resolveVaultFolderPath(basePath, folderPath)
        normalizedFolder == normalizePath(resolvedFolder.folderPath)
        normalizedRelative == dropWhileHead(trim(relativePath), "/")
        fullPath == normalizePath(normalizedFolder \o <<"/">> \o normalizedRelative)
    IN  IF folderPath = <<>> THEN <<>>
        ELSE IF resolvedFolder.errorMessage # <<>> THEN <<>>
        ELSE IF ~isTFile(files, fullPath) THEN <<>>
        ELSE getResourcePath(fullPath)

\* a selection that looks in the vault first
getSelectedImageUrlLocalFirst(files, basePath, hostSettings) ==
    LET baseUrl == trim(hostSettings.serverBaseUrl)
        relativePath == trim(hostSettings.selectedImagePath)
        localUrl == getLocalImageUrl(files, basePath, hostSettings, relativePath)
    IN  IF relativePath = <<>> THEN <<>>
        ELSE IF localUrl # <<>> THEN localUrl
        ELSE IF baseUrl # <<>> THEN buildUrlFromRelative(baseUrl, relativePath)
        ELSE <<>>

\* getSelectedImageUrl
getSelectedImageUrl(files, basePath, hostSettings) ==
    LET baseUrl == trim(hostSettings.serverBaseUrl)
        relativePath == trim(hostSettings.selectedImagePath)
        preferRemote == /\ baseUrl # <<>>
                        /\ \/ hostSettings.useRemoteIndex
                           \/ Len(trim(hostSettings.authToken)) > 0
                           \/ Len(trim(hostSettings.linkedServerEntryId)) > 0
        localUrl == getLocalImageUrl(files, basePath, hostSettings, relativePath)
    IN  IF relativePath = <<>> THEN <<>>
        ELSE IF preferRemote /\ baseUrl # <<>>
        THEN buildUrlFromRelative(baseUrl, relativePath)
        ELSE IF localUrl # <<>> THEN localUrl
        ELSE IF baseUrl # <<>> THEN buildUrlFromRelative(baseUrl, relativePath)
        ELSE <<>>

\* a sync that writes the settings in memory and leaves them unsaved
syncFromLinkedServerUnsaved(bridge, handler, basePath, hostSettings) ==
    LET api == getLocalVaultServerApi(bridge)
        entry == findLocalVaultServerEntry(api[1].entries, hostSettings.linkedServerEntryId)
        resolvedFolder == resolveVaultFolderPath(basePath, entry[1].serveDir)
        nextFolder == IF Len(resolvedFolder.errorMessage) > 0 THEN entry[1].serveDir
                      ELSE resolvedFolder.folderPath
    IN  IF api = <<>>
        THEN [settings |-> hostSettings, handler |-> handler, changed |-> FALSE]
        ELSE IF entry = <<>>
        THEN [settings |-> hostSettings, handler |-> TRUE, changed |-> FALSE]
        ELSE [settings |-> [hostSettings EXCEPT
                               !.serverBaseUrl = buildLocalVaultServerBaseUrl(entry[1]),
                               !.imageFolderPath = nextFolder,
                               !.authToken = entry[1].authToken],
              handler |-> TRUE,
              changed |-> FALSE]

\* a sync that saves whenever the linked entry is found
syncFromLinkedServerAlwaysSaves(bridge, handler, basePath, hostSettings) ==
    LET api == getLocalVaultServerApi(bridge)
        entry == findLocalVaultServerEntry(api[1].entries, hostSettings.linkedServerEntryId)
        resolvedFolder == resolveVaultFolderPath(basePath, entry[1].serveDir)
        nextFolder == IF Len(resolvedFolder.errorMessage) > 0 THEN entry[1].serveDir
                      ELSE resolvedFolder.folderPath
    IN  IF api = <<>>
        THEN [settings |-> hostSettings, handler |-> handler, changed |-> FALSE]
        ELSE IF entry = <<>>
        THEN [settings |-> hostSettings, handler |-> TRUE, changed |-> FALSE]
        ELSE [settings |-> [hostSettings EXCEPT
                               !.serverBaseUrl = buildLocalVaultServerBaseUrl(entry[1]),
                               !.imageFolderPath = nextFolder,
                               !.authToken = entry[1].authToken],
              handler |-> TRUE,
              changed |-> TRUE]

\* syncFromLinkedServer up to its await: the settings in memory, whether the
\* change handler is registered, and whether saveSettings is called
syncFromLinkedServer(bridge, handler, basePath, hostSettings) ==
    LET api == getLocalVaultServerApi(bridge)
        entry == findLocalVaultServerEntry(api[1].entries, hostSettings.linkedServerEntryId)
        nextBaseUrl == buildLocalVaultServerBaseUrl(entry[1])
        resolvedFolder == resolveVaultFolderPath(basePath, entry[1].serveDir)
        nextFolder == IF Len(resolvedFolder.errorMessage) > 0 THEN entry[1].serveDir
                      ELSE resolvedFolder.folderPath
        nextAuthToken == entry[1].authToken
    IN  IF api = <<>>
        THEN [settings |-> hostSettings, handler |-> handler, changed |-> FALSE]
        ELSE IF entry = <<>>
        THEN [settings |-> hostSettings, handler |-> TRUE, changed |-> FALSE]
        ELSE [settings |-> [hostSettings EXCEPT !.serverBaseUrl = nextBaseUrl,
                                                !.imageFolderPath = nextFolder,
                                                !.authToken = nextAuthToken],
              handler |-> TRUE,
              changed |-> \/ hostSettings.serverBaseUrl # nextBaseUrl
                          \/ hostSettings.imageFolderPath # nextFolder
                          \/ hostSettings.authToken # nextAuthToken]

\* saveSettings: this.saveData(this.settings) is in flight until SaveDone;
\* `next` is what the caller does once its await returns
saveSettings(saves, data, next) == Append(saves, [data |-> data, next |-> next])

\* the entries the settings tab offers: api.getServerEntries(), [] without api
localServerEntries(bridge) ==
    LET api == getLocalVaultServerApi(bridge)
    IN  IF api = <<>> THEN <<>> ELSE api[1].entries

\* the part of syncFromLinkedServer that runs before its await
syncStep(run, bridge, next) ==
    \E outcome \in {syncFromLinkedServer(bridge, run.handler, hostBasePath, settings)} :
        /\ settings' = outcome.settings
        /\ rs' = [run EXCEPT
                     !.bridge = bridge,
                     !.handler = outcome.handler,
                     !.saves = IF outcome.changed
                               THEN saveSettings(run.saves, outcome.settings, next)
                               ELSE run.saves,
                     !.handed = IF outcome.changed THEN outcome.settings ELSE run.handed,
                     !.fieldsDisabled =
                         IF ~outcome.changed /\ next = "applyDisplay"
                         THEN isLinkedToLocalServer(bridge, outcome.settings)
                         ELSE run.fieldsDisabled,
                     !.read = <<>>,
                     !.last = "sync"]

\* onload's call of syncFromLinkedServer
SyncFromLinkedServer ==
    /\ rs.pc = "plugin"
    /\ Len(rs.saves) < MaxPending
    /\ syncStep(rs, rs.bridge, "apply")
    /\ UNCHANGED <<vaultFiles, hostBasePath, pickerVars>>

\* the Local Vault Server plugin is installed, removed, upgraded or
\* reconfigured; it calls the handlers registered with onSettingsChanged
BridgeChange(bridge) ==
    /\ rs.pc = "plugin"
    /\ bridge # rs.bridge
    /\ rs.handler => Len(rs.saves) < MaxPending
    /\ IF rs.handler
       THEN syncStep(rs, bridge, "apply")
       ELSE /\ rs' = [rs EXCEPT !.bridge = bridge, !.read = <<>>, !.last = "other"]
            /\ UNCHANGED settings
    /\ UNCHANGED <<vaultFiles, hostBasePath, pickerVars>>

\* an onChange handler of the settings tab up to its await
changeSetting(changed, next) ==
    /\ rs.pc = "plugin"
    /\ Len(rs.saves) < MaxPending
    /\ changed # settings
    /\ settings' = changed
    /\ rs' = [rs EXCEPT !.saves = saveSettings(rs.saves, changed, next),
                        !.handed = changed,
                        !.read = <<>>,
                        !.last = "other"]
    /\ UNCHANGED <<vaultFiles, hostBasePath, pickerVars>>

\* "Linked server entry" dropdown
OnLinkedEntryChange ==
    \E value \in {<<>>} \cup {localServerEntries(rs.bridge)[i].id :
                               i \in 1..Len(localServerEntries(rs.bridge))} :
        changeSetting([settings EXCEPT !.linkedServerEntryId = value], "sync")

\* "Base URL" text field
OnBaseUrlChange ==
    /\ ~rs.fieldsDisabled
    /\ \E value \in {<<>>, <<"http:", "/", "/", "127.0.0.1", ":", "3000">>} :
          changeSetting([settings EXCEPT !.serverBaseUrl = trim(value)], "apply")

\* "Image folder path" text field
OnFolderPathChange ==
    /\ ~rs.fieldsDisabled
    /\ \E value \in {<<>>, <<"x">>} :
          changeSetting([settings EXCEPT !.imageFolderPath = trim(value)], "none")

\* "Use HTTP directory listing" toggle
OnUseRemoteIndexChange ==
    \E value \in BOOLEAN :
        changeSetting([settings EXCEPT !.useRemoteIndex = value], "none")

\* "Auth token" text field
OnAuthTokenChange ==
    /\ ~rs.fieldsDisabled
    /\ \E value \in {<<>>, <<"t">>} :
          changeSetting([settings EXCEPT !.authToken = trim(value)], "none")

\* saveData resolves: the settings it was handed are on disk and the caller
\* goes on after its await
SaveDone ==
    /\ rs.pc = "plugin"
    /\ rs.saves # <<>>
    /\ \E save \in {Head(rs.saves)} :
       \E run \in {[rs EXCEPT !.persisted = save.data, !.saves = Tail(rs.saves)]} :
          CASE save.next = "sync" ->
                  syncStep(run, run.bridge, "applyDisplay")
            [] save.next = "apply" ->
                  /\ rs' = [run EXCEPT
                               !.background = getSelectedImageUrl(vaultFiles, hostBasePath,
                                                                  settings),
                               !.read = <<>>,
                               !.last = "other"]
                  /\ UNCHANGED settings
            [] save.next = "applyDisplay" ->
                  /\ rs' = [run EXCEPT
                               !.background = getSelectedImageUrl(vaultFiles, hostBasePath,
                                                                  settings),
                               !.fieldsDisabled = isLinkedToLocalServer(run.bridge, settings),
                               !.read = <<>>,
                               !.last = "other"]
                  /\ UNCHANGED settings
            [] OTHER ->
                  /\ rs' = [run EXCEPT !.read = <<>>, !.last = "other"]
                  /\ UNCHANGED settings
    /\ UNCHANGED <<vaultFiles, hostBasePath, pickerVars>>

\* MyPluginSettingTab.display(): the text fields are disabled while linked
Display ==
    /\ rs.pc = "plugin"
    /\ rs' = [rs EXCEPT !.fieldsDisabled = isLinkedToLocalServer(rs.bridge, settings),
                        !.read = <<>>,
                        !.last = "display"]
    /\ UNCHANGED <<settings, vaultFiles, hostBasePath, pickerVars>>

\* the picker is opened or refreshed: renderGrid reads the settings for the
\* cache key and loadImageItems asks the host for the linked context
PickerRead ==
    /\ rs.pc = "plugin"
    /\ \E linked \in {getLinkedServerInfo(rs.bridge, settings)} :
          rs' = [rs EXCEPT
                    !.read = <<[cacheKey |-> getCacheKey(settings),
                                linked |-> linked,
                                whitelist |-> getLinkedWhitelistInfoOfBridge(rs.bridge,
                                                                             settings),
                                source |-> selectSource(linked, settings.useRemoteIndex)]>>,
                    !.last = "read"]
    /\ UNCHANGED <<settings, vaultFiles, hostBasePath, pickerVars>>

wallpapers == [id |-> <<"e1">>, host |-> "0.0.0.0", port |-> "3000", enableHttps |-> FALSE,
               serveDir |-> <<"w">>, authToken |-> <<"t">>,
               enableWhitelist |-> TRUE, whitelistFiles |-> <<artX>>]

extras == [id |-> <<"e2">>, host |-> "h", port |-> "3001", enableHttps |-> FALSE,
           serveDir |-> <<"x", "/">>, authToken |-> <<>>,
           enableWhitelist |-> FALSE, whitelistFiles |-> <<>>]

EntryLists == {<<>>, <<wallpapers>>, <<extras>>, <<wallpapers, extras>>}

\* the bridge as app.plugins shows it: a trusted one with each list of
\* entries, and one that fails each test of getLocalVaultServerApi
TrustedBridges ==
    {[plugins |-> TRUE, plugin |-> TRUE, getApi |-> TRUE, api |-> TRUE,
      apiVersion |-> LOCAL_VAULT_SERVER_API_VERSION, entries |-> entries] :
        entries \in EntryLists}

UntrustedBridges ==
    {[plugins |-> FALSE, plugin |-> FALSE, getApi |-> FALSE, api |-> FALSE,
      apiVersion |-> 0, entries |-> <<>>],
     [plugins |-> TRUE, plugin |-> FALSE, getApi |-> FALSE, api |-> FALSE,
      apiVersion |-> 0, entries |-> <<>>],
     [plugins |-> TRUE, plugin |-> TRUE, getApi |-> FALSE, api |-> FALSE,
      apiVersion |-> 0, entries |-> <<>>],
     [plugins |-> TRUE, plugin |-> TRUE, getApi |-> TRUE, api |-> FALSE,
      apiVersion |-> 0, entries |-> <<>>],
     [plugins |-> TRUE, plugin |-> TRUE, getApi |-> TRUE, api |-> TRUE,
      apiVersion |-> 0, entries |-> <<wallpapers>>],
     [plugins |-> TRUE, plugin |-> TRUE, getApi |-> TRUE, api |-> TRUE,
      apiVersion |-> 2, entries |-> <<wallpapers>>]}

Bridges == TrustedBridges \cup UntrustedBridges

InitBridge ==
    /\ settings = [serverBaseUrl |-> <<"http:", "/", "/", "127.0.0.1", ":", "3000">>,
                   imageFolderPath |-> <<>>,
                   useRemoteIndex |-> FALSE,
                   authToken |-> <<>>,
                   selectedImagePath |-> artX,
                   linkedServerEntryId |-> <<>>]
    /\ vaultFiles = ResolveFiles
    /\ hostBasePath = <<"/", "v">>
    /\ overlayOpen = FALSE
    /\ grid = <<>>
    /\ statusText = <<>>
    /\ itemCount = 0
    /\ renderToken = 0
    /\ renderQueue = <<>>
    /\ cachedKey = <<>>
    /\ cachedItems = <<>>
    /\ cachedError = <<>>
    /\ idleCallbacks = [t \in 0..(MaxToken + 1) |-> 0]
    /\ lookup = NoStep
    /\ passItems = <<>>
    /\ \E bridge \in Bridges :
          rs = [pc |-> "plugin", bridge |-> bridge, handler |-> FALSE,
                persisted |-> settings, handed |-> settings, saves |-> <<>>,
                fieldsDisabled |-> FALSE, background |-> <<>>,
                read |-> <<>>, last |-> "other"]

NextBridge ==
    \/ SyncFromLinkedServer
    \/ \E bridge \in Bridges : BridgeChange(bridge)
    \/ OnLinkedEntryChange
    \/ OnBaseUrlChange
    \/ OnFolderPathChange
    \/ OnUseRemoteIndexChange
    \/ OnAuthTokenChange
    \/ SaveDone
    \/ Display
    \/ PickerRead

SpecBridge == InitBridge /\ [][NextBridge]_vars

-----------------------------------------------------------------------------
(* The linked context, the bridge and the settings in flight.              *)

\* some entry the bridge lists has this id
listsEntry(bridge, entryId) ==
    \E i \in 1..Len(bridge.entries) : bridge.entries[i].id = entryId

\* C25: when the picker reads the linked context and linkedServerEntryId is
\* empty or is the id of no entry the bridge lists, the linked context is
\* absent, no whitelist applies and the source is one of the not-linked ones,
\* whatever entries the bridge lists.
C25_ContextOnlyForLinkedEntry ==
    (/\ rs.last = "read"
     /\ \/ settings.linkedServerEntryId = <<>>
        \/ ~listsEntry(rs.bridge, settings.linkedServerEntryId))
    => /\ rs.read[1].linked = <<>>
       /\ ~rs.read[1].whitelist.enabled
       /\ rs.read[1].source \in {"remote", "vault"}

\* the plugin exists, exposes getApi, and its api reports version 1
bridgeTrusted(bridge) ==
    /\ bridge.plugins
    /\ bridge.plugin
    /\ bridge.getApi
    /\ bridge.api
    /\ bridge.apiVersion = 1

\* C26: getLocalVaultServerApi returns the bridge exactly when the plugin
\* exists, exposes getApi and reports apiVersion 1; with any other bridge the
\* settings tab finds the plugin not linked, the picker gets no linked
\* context, and a run of syncFromLinkedServer changes no setting, saves
\* nothing and registers no handler.
C26_UntrustedBridgeIsAbsent ==
    /\ [](/\ bridgeTrusted(rs.bridge) <=> (getLocalVaultServerApi(rs.bridge) # <<>>)
          /\ (rs.last = "display" /\ ~bridgeTrusted(rs.bridge)) => ~rs.fieldsDisabled
          /\ (rs.last = "read" /\ ~bridgeTrusted(rs.bridge))
             => /\ rs.read[1].linked = <<>>
                /\ ~rs.read[1].whitelist.enabled)
    /\ [][(rs'.last = "sync" /\ ~bridgeTrusted(rs'.bridge))
          => /\ settings' = settings
             /\ rs'.handler = rs.handler
             /\ rs'.handed = rs.handed]_vars

\* syncFromLinkedServer has run against a bridge of version 2 that lists the
\* linked entry, and no handler is registered
C26_Witness ==
    /\ rs.last = "sync"
    /\ rs.bridge.api
    /\ rs.bridge.apiVersion = 2
    /\ listsEntry(rs.bridge, settings.linkedServerEntryId)
    /\ ~rs.handler
    /\ settings.authToken = <<>>

\* C27 as stated: whenever the picker reads the settings, they equal the
\* persisted settings and no saveSettings is in flight.
C27_PickerReadsPersisted ==
    rs.last = "read" => (settings = rs.persisted /\ rs.saves = <<>>)

\* C27: whenever the picker reads the settings, they are the settings most
\* recently handed to saveSettings (or loaded at start-up); the save issued
\* last, if one is in flight, carries exactly them.
C27_PickerReadsHandedSettings ==
    rs.last = "read"
    => /\ settings = rs.handed
       /\ rs.saves # <<>> => rs.saves[Len(rs.saves)].data = settings

\* the picker reads while the save of a changed setting is in flight
C27_Witness ==
    /\ rs.last = "read"
    /\ rs.saves # <<>>
    /\ settings # rs.persisted
    /\ rs.read[1].cacheKey # getCacheKey(rs.persisted)

-----------------------------------------------------------------------------
(* The selected background as a function of the settings and the vault     *)
(* (specification SpecSelect): settings are drawn and applied.             *)

SelectionSettings ==
    [serverBaseUrl : {<<>>, <<" ">>, <<"http:", "/", "/", "h">>, <<"http:", "/", "/", "h", "/">>},
     imageFolderPath : {<<>>, <<"w">>, <<"x">>, <<"/", "v", "/", "w">>},
     useRemoteIndex : BOOLEAN,
     authToken : {<<>>, <<" ">>, <<"t">>},
     selectedImagePath : {<<>>, <<" ">>, artX, <<"/">> \o artX, remoteOnly},
     linkedServerEntryId : {<<>>, <<"e1">>}]

\* applySelectedBackground: the CSS variable gets url("...") of the selected
\* image, and is removed when there is none
ApplySelectedBackground ==
    /\ rs.pc = "select"
    /\ rs' = [rs EXCEPT !.pc = "applied",
                        !.background = getSelectedImageUrl(vaultFiles, hostBasePath,
                                                           settings)]
    /\ UNCHANGED <<settings, vaultFiles, hostBasePath, pickerVars>>

InitSelect ==
    /\ settings \in SelectionSettings
    /\ vaultFiles \in {ResolveFiles, {}}
    /\ hostBasePath = <<"/", "v">>
    /\ overlayOpen = FALSE
    /\ grid = <<>>
    /\ statusText = <<>>
    /\ itemCount = 0
    /\ renderToken = 0
    /\ renderQueue = <<>>
    /\ cachedKey = <<>>
    /\ cachedItems = <<>>
    /\ cachedError = <<>>
    /\ idleCallbacks = [t \in 0..(MaxToken + 1) |-> 0]
    /\ lookup = NoStep
    /\ passItems = <<>>
    /\ rs = [pc |-> "select", background |-> <<>>]

NextSelect == ApplySelectedBackground

SpecSelect == InitSelect /\ [][NextSelect]_vars

\* the vault path of the selected image under the image folder, <<>> when
\* the folder is unset or unresolvable or holds no such file
selectedLocalFile ==
    LET folder == resolveVaultFolderPath(hostBasePath, trim(settings.imageFolderPath))
        path == normalizePath(folder.folderPath \o <<"/">>
                              \o dropWhileHead(trim(settings.selectedImagePath), "/"))
    IN  IF trim(settings.imageFolderPath) = <<>> \/ folder.errorMessage # <<>> THEN <<>>
        ELSE IF path \in vaultFiles THEN <<path>>
        ELSE <<>>

\* C28: the applied URL is "" when the selected path is empty; it is the
\* remote URL, whether or not the file is in the vault, when the base URL is
\* non-empty and remote-index mode, a non-empty auth token or a non-empty
\* linked entry id is set; otherwise it is the resource URL of the file when
\* the file exists under the image folder, else the remote URL when the base
\* URL is non-empty, else "".  Empty is judged after trimming.
C28_SelectedUrlPrecedence ==
    rs.pc = "applied"
    => LET baseUrl == trim(settings.serverBaseUrl)
           relativePath == trim(settings.selectedImagePath)
           remoteUrl == buildUrlFromRelative(baseUrl, relativePath)
           remoteSignal == \/ settings.useRemoteIndex
                           \/ trim(settings.authToken) # <<>>
                           \/ trim(settings.linkedServerEntryId) # <<>>
       IN  IF relativePath = <<>> THEN rs.background = <<>>
           ELSE IF baseUrl # <<>> /\ remoteSignal THEN rs.background = remoteUrl
           ELSE IF selectedLocalFile # <<>>
           THEN rs.background = <<"app://">> \o selectedLocalFile[1]
           ELSE IF baseUrl # <<>> THEN rs.background = remoteUrl
           ELSE rs.background = <<>>

\* an auth token alone sends a file that is in the vault to the server
C28_Witness ==
    /\ rs.pc = "applied"
    /\ selectedLocalFile # <<>>
    /\ ~settings.useRemoteIndex
    /\ settings.authToken = <<"t">>
    /\ settings.linkedServerEntryId = <<>>
    /\ rs.background = <<"http:", "/", "/", "h", "/">> \o artX

-----------------------------------------------------------------------------
(* The slices of a render pass.                                            *)

\* the smaller of two numbers
smaller(a, b) == IF a < b THEN a ELSE b

\* the step is a callback that found the grid, a queue and a current token
sliceStep == lookup'.kind = "callback" /\ sliceRuns

\* C29: a pass over N >= 1 items that no open, Refresh or close supersedes
\* (the render token stays what it was) ends, when pending callbacks get to
\* run, with all N tiles in the grid, the status cleared and no queue; and a
\* slice schedules a further callback exactly when its cursor has not
\* reached N.
C29_PassCompletes ==
    /\ \A k \in 0..MaxToken :
          (overlayOpen /\ renderQueue # <<>> /\ renderToken = k)
          ~> \/ renderToken # k
             \/ /\ renderQueue = <<>>
                /\ itemCount >= 1
                /\ Len(grid) = itemCount
                /\ grid = relativePathsOf(passItems)
                /\ statusText = <<>>
    /\ [][sliceStep =>
             LET total == Len(renderQueue[1].items)
                 cursor == renderQueue[1].index + lookup'.appended
             IN  /\ lookup'.rescheduled <=> cursor < total
                 /\ cursor < total <=> renderQueue' # <<>>
                 /\ \A t \in 0..(MaxToken + 1) :
                       idleCallbacks'[t] =
                           idleCallbacks[t]
                           - (IF t = lookup'.scheduledAt THEN 1 ELSE 0)
                           + (IF t = renderToken /\ cursor < total THEN 1 ELSE 0)]_vars

\* the last slice of the large folder has run and nothing is pending
C29_Witness ==
    /\ overlayOpen
    /\ lookup.kind = "callback"
    /\ lookup.appended >= 1
    /\ ~lookup.rescheduled
    /\ renderQueue = <<>>
    /\ Len(grid) = BigFolderSize
    /\ statusText = <<>>
    /\ \A t \in 0..(MaxToken + 1) : idleCallbacks[t] = 0

\* C30: a slice over a list of N items with the cursor at c appends exactly
\* min(24, N - c) tiles, never more than 24, and moves the cursor by as many;
\* when items remain the status then reads "Loading {cursor} / {N}...".
C30_BoundedBatches ==
    [][sliceStep =>
          LET total == Len(renderQueue[1].items)
              cursor == renderQueue[1].index
              count == smaller(24, total - cursor)
          IN  /\ lookup'.appended = count
              /\ count <= 24
              /\ Len(grid') = Len(grid) + count
              /\ SubSeq(grid', 1, Len(grid)) = grid
              /\ cursor + count < total
                 => /\ renderQueue' # <<>>
                    /\ renderQueue'[1].index = cursor + count
                    /\ renderQueue'[1].items = renderQueue[1].items
                    /\ statusText' = <<"Loading ", ToString(cursor + count), " / ",
                                       ToString(total), "...">>
              /\ cursor + count = total => renderQueue' = <<>>]_vars

\* the first slice of the large folder has run: 24 tiles, more to come
C30_Witness ==
    /\ lookup.kind = "callback"
    /\ lookup.appended = 24
    /\ lookup.rescheduled
    /\ Len(grid) = 24
    /\ renderQueue # <<>>
    /\ renderQueue[1].index = 24
    /\ statusText = <<"Loading ", "24", " / ", ToString(BigFolderSize), "...">>

-----------------------------------------------------------------------------
(* renderGrid with a resolver that is awaited (specification SpecAsync):   *)
(* on a cache miss the invocation is suspended between its first writes    *)
(* and the test of its token, and other handlers run in between.  rs holds *)
(* the suspended invocations.                                              *)

\* a test that lets every invocation go on
isStaleNever(token) == FALSE

\* renderGrid, lines 287-289: token !== this.renderToken || !gridEl || !statusEl
isStale(token) == token # renderToken \/ ~overlayOpen

\* renderGrid up to its await; a cache hit has nothing to wait for
renderGridAwaiting(forceRefresh) ==
    \E cacheKey \in {getCacheKey(settings)} :
    \E found \in {cacheLookup(forceRefresh, cacheKey)} :
        IF ~found.invoked
        THEN /\ renderGrid(forceRefresh)
             /\ UNCHANGED rs
        ELSE /\ Len(rs.calls) < MaxPending
             /\ renderToken' = renderToken + 1
             /\ grid' = clearedGrid(grid)
             /\ renderQueue' = <<>>
             /\ itemCount' = 0
             /\ statusText' = <<"Loading images...">>
             /\ passItems' = <<>>
             /\ lookup' = [NoStep EXCEPT !.kind = "awaiting",
                                         !.forceRefresh = forceRefresh,
                                         !.cacheKey = cacheKey,
                                         !.invoked = TRUE]
             /\ rs' = [rs EXCEPT !.calls = Append(@, [token |-> renderToken + 1,
                                                     cacheKey |-> cacheKey,
                                                     result |-> found.result])]
             /\ UNCHANGED <<cachedKey, cachedItems, cachedError, idleCallbacks>>

OpenAwaiting ==
    /\ rs.pc = "async"
    /\ renderToken < MaxToken
    /\ overlayOpen' = TRUE
    /\ renderGridAwaiting(FALSE)
    /\ UNCHANGED <<settings, vaultFiles, hostBasePath>>

RefreshAwaiting ==
    /\ rs.pc = "async"
    /\ overlayOpen
    /\ renderToken < MaxToken
    /\ renderGridAwaiting(TRUE)
    /\ UNCHANGED <<overlayOpen, settings, vaultFiles, hostBasePath>>

\* the resolver's promise settles and renderGrid goes on after its await
RenderGridResumes(i) ==
    /\ rs.pc = "async"
    /\ i \in 1..Len(rs.calls)
    /\ LET call == rs.calls[i]
           result == call.result
           entry == cacheEntry(call.cacheKey, result)
           queue == <<[items |-> result.items, index |-> 0, token |-> call.token]>>
       IN  /\ rs' = [rs EXCEPT !.calls = SubSeq(@, 1, i - 1) \o SubSeq(@, i + 1, Len(@))]
           /\ lookup' = [NoStep EXCEPT !.kind = "resumed",
                                       !.scheduledAt = call.token,
                                       !.firedAt = renderToken,
                                       !.result = result,
                                       !.statusBefore = statusText]
           /\ IF isStale(call.token)
              THEN UNCHANGED <<statusText, itemCount, renderQueue, cachedKey, cachedItems,
                               cachedError, idleCallbacks, passItems>>
              ELSE /\ cachedKey' = entry.key
                   /\ cachedItems' = entry.items
                   /\ cachedError' = entry.error
                   /\ passItems' = result.items
                   /\ statusText' = statusFor(result)
                   /\ IF result.errorMessage # <<>> \/ Len(result.items) = 0
                      THEN UNCHANGED <<itemCount, renderQueue, idleCallbacks>>
                      ELSE /\ itemCount' = Len(result.items)
                           /\ renderQueue' = queue
                           /\ idleCallbacks' = scheduleTileRender(idleCallbacks, queue,
                                                                  call.token)
    /\ UNCHANGED <<overlayOpen, grid, renderToken, settings, vaultFiles, hostBasePath>>

InitAsync ==
    /\ settings \in [serverBaseUrl : {<<"http:", "/", "/", "h">>},
                     imageFolderPath : FolderChoices,
                     useRemoteIndex : {FALSE}]
    /\ vaultFiles = bigFolderFiles \cup {<<"o", "/", "a", ".", "png">>,
                                         <<"o", "/", "b", ".", "txt">>}
    /\ hostBasePath = <<"/", "v">>
    /\ overlayOpen = FALSE
    /\ grid = <<>>
    /\ statusText = <<>>
    /\ itemCount = 0
    /\ renderToken = 0
    /\ renderQueue = <<>>
    /\ cachedKey = <<>>
    /\ cachedItems = <<>>
    /\ cachedError = <<>>
    /\ idleCallbacks = [t \in 0..(MaxToken + 1) |-> 0]
    /\ lookup = NoStep
    /\ passItems = <<>>
    /\ rs = [pc |-> "async", calls |-> <<>>]

NextAsync ==
    \/ OpenAwaiting
    \/ RefreshAwaiting
    \/ \E i \in 1..MaxPending : RenderGridResumes(i)
    \/ Close
    \/ \E t \in 0..MaxToken : RenderTileBatch(t)
    \/ SetImageFolderPath

SpecAsync == InitAsync /\ [][NextAsync]_vars

C32_QueueBelongsToToken ==
    /\ [](renderQueue = <<>> \/ renderQueue[1].token = renderToken)
    /\ [][renderToken' # renderToken
          => \/ renderQueue' = <<>>
             \/ /\ renderQueue'[1].token = renderToken'
                /\ renderQueue'[1].index = 0]_vars

\* a pass is half rendered after the token was advanced twice, and a
\* callback of an earlier pass is still pending
C32_Witness ==
    /\ renderToken >= 3
    /\ renderQueue # <<>>
    /\ renderQueue[1].index = batchSize
    /\ \E t \in 0..(MaxToken + 1) : t < renderToken /\ idleCallbacks[t] > 0

-----------------------------------------------------------------------------
(* The batched layout update (specification SpecLayout).  rs holds         *)
(* pendingGridUpdate, the animation-frame callbacks not yet run, the       *)
(* resize observer, the grid's width and the layout last written to it.    *)

\* the largest number of requestGridUpdate calls followed between two frames
MaxRequests == 3

\* a request that asks for a frame every time
requestGridUpdateUnbatched(run) ==
    [run EXCEPT !.pendingGridUpdate = TRUE,
                !.frames = @ + 1,
                !.requested = @ + 1,
                !.calls = 0,
                !.last = "request"]

\* requestGridUpdate
requestGridUpdate(run) ==
    IF run.pendingGridUpdate
    THEN [run EXCEPT !.requested = @ + 1, !.calls = 0, !.last = "request"]
    ELSE [run EXCEPT !.pendingGridUpdate = TRUE,
                     !.frames = @ + 1,
                     !.requested = @ + 1,
                     !.calls = 0,
                     !.last = "request"]

\* updateGridLayout: the columns and row height written to the grid
updateGridLayout(run) ==
    IF ~overlayOpen \/ itemCount = 0 THEN run.layout
    ELSE IF ~Below(Whole(0), run.width) THEN run.layout
    ELSE <<findBestGridLayout(itemCount, run.width, Whole(30), Whole(1), Whole(12))>>

\* renderGrid, lines 328-331: with items, the observer is set up and an
\* update requested
afterRender(run, count) ==
    IF count = 0 THEN [run EXCEPT !.calls = 0, !.last = "render"]
    ELSE requestGridUpdate([run EXCEPT !.observer = TRUE])

OpenObserved ==
    /\ rs.pc = "layout"
    /\ renderToken < MaxToken
    /\ rs.requested < MaxRequests
    /\ overlayOpen' = TRUE
    /\ renderGrid(FALSE)
    /\ rs' = afterRender(rs, itemCount')
    /\ UNCHANGED <<settings, vaultFiles, hostBasePath>>

RefreshObserved ==
    /\ rs.pc = "layout"
    /\ overlayOpen
    /\ renderToken < MaxToken
    /\ rs.requested < MaxRequests
    /\ renderGrid(TRUE)
    /\ rs' = afterRender(rs, itemCount')
    /\ UNCHANGED <<overlayOpen, settings, vaultFiles, hostBasePath>>

\* close(): the listeners are removed and the observer disconnected; the
\* animation frame asked for stays asked for
CloseObserved ==
    /\ rs.pc = "layout"
    /\ overlayOpen
    /\ renderToken < MaxToken
    /\ renderToken' = renderToken + 1
    /\ overlayOpen' = FALSE
    /\ grid' = <<>>
    /\ statusText' = <<>>
    /\ renderQueue' = <<>>
    /\ passItems' = <<>>
    /\ lookup' = NoStep
    /\ rs' = [rs EXCEPT !.observer = FALSE, !.layout = <<>>, !.calls = 0, !.last = "close"]
    /\ UNCHANGED <<itemCount, cachedKey, cachedItems, cachedError, idleCallbacks,
                   settings, vaultFiles, hostBasePath>>

\* handleResize: the window is resized while the picker is open
HandleResize ==
    /\ rs.pc = "layout"
    /\ overlayOpen
    /\ rs.requested < MaxRequests
    /\ \E width \in {Whole(0), Whole(10), Whole(30)} :
          rs' = requestGridUpdate([rs EXCEPT !.width = width])
    /\ UNCHANGED <<settings, vaultFiles, hostBasePath, pickerVars>>

\* the ResizeObserver's callback: the grid changed size
ObserverFires ==
    /\ rs.pc = "layout"
    /\ rs.observer
    /\ rs.requested < MaxRequests
    /\ rs' = requestGridUpdate(rs)
    /\ UNCHANGED <<settings, vaultFiles, hostBasePath, pickerVars>>

\* a requestAnimationFrame callback runs
AnimationFrame ==
    /\ rs.pc = "layout"
    /\ rs.frames > 0
    /\ rs' = [rs EXCEPT !.pendingGridUpdate = FALSE,
                        !.frames = @ - 1,
                        !.requested = 0,
                        !.calls = 1,
                        !.layout = updateGridLayout(rs),
                        !.last = "frame"]
    /\ UNCHANGED <<settings, vaultFiles, hostBasePath, pickerVars>>

InitLayout ==
    /\ settings \in [serverBaseUrl : {<<"http:", "/", "/", "h">>},
                     imageFolderPath : FolderChoices,
                     useRemoteIndex : {FALSE}]
    /\ vaultFiles = bigFolderFiles \cup {<<"o", "/", "a", ".", "png">>,
                                         <<"o", "/", "b", ".", "txt">>}
    /\ hostBasePath = <<"/", "v">>
    /\ overlayOpen = FALSE
    /\ grid = <<>>
    /\ statusText = <<>>
    /\ itemCount = 0
    /\ renderToken = 0
    /\ renderQueue = <<>>
    /\ cachedKey = <<>>
    /\ cachedItems = <<>>
    /\ cachedError = <<>>
    /\ idleCallbacks = [t \in 0..(MaxToken + 1) |-> 0]
    /\ lookup = NoStep
    /\ passItems = <<>>
    /\ rs = [pc |-> "layout", pendingGridUpdate |-> FALSE, frames |-> 0, requested |-> 0,
             calls |-> 0, observer |-> FALSE, width |-> Whole(30), layout |-> <<>>,
             last |-> "none"]

NextLayout ==
    \/ OpenObserved
    \/ RefreshObserved
    \/ CloseObserved
    \/ ObserverFires
    \/ HandleResize
    \/ AnimationFrame

SpecLayout == InitLayout /\ [][NextLayout]_vars

\* C33: pendingGridUpdate is true exactly when an animation-frame callback is
\* pending, and then exactly one is; the calls of requestGridUpdate made
\* since the last frame, however many, are answered by that one callback,
\* which resets the flag and calls updateGridLayout once, whether or not the
\* picker is still open.
C33_LayoutUpdateIsBatched ==
    /\ [](/\ rs.frames = IF rs.pendingGridUpdate THEN 1 ELSE 0
          /\ rs.requested >= 1 <=> rs.pendingGridUpdate)
    /\ [][/\ rs'.last = "request" /\ rs' # rs
             => /\ rs'.frames = 1
                /\ rs'.calls = 0
          /\ rs'.last = "frame" /\ rs' # rs
             => /\ rs.requested >= 1
                /\ rs'.calls = 1
                /\ rs'.frames = 0
                /\ ~rs'.pendingGridUpdate]_vars

\* three requests were made, the picker was closed, and the one frame ran
C33_Witness ==
    /\ rs.last = "frame"
    /\ ~overlayOpen
    /\ ~rs.pendingGridUpdate
    /\ itemCount > 0
    /\ rs.layout = <<>>

-----------------------------------------------------------------------------
(* syncFromLinkedServer writes only on change.                             *)

\* the bridge is trusted, lists the linked entry, and the entry's base URL,
\* folder and token are the ones the settings hold
entryInSync(bridge, basePath, hostSettings) ==
    /\ bridgeTrusted(bridge)
    /\ \E i \in 1..Len(bridge.entries) :
          /\ bridge.entries[i].id = hostSettings.linkedServerEntryId
          /\ \A j \in 1..(i - 1) : bridge.entries[j].id # hostSettings.linkedServerEntryId
          /\ hostSettings.serverBaseUrl = buildLocalVaultServerBaseUrl(bridge.entries[i])
          /\ hostSettings.authToken = bridge.entries[i].authToken
          /\ \E resolved \in {resolveVaultFolderPath(basePath, bridge.entries[i].serveDir)} :
                hostSettings.imageFolderPath =
                    IF resolved.errorMessage = <<>> THEN resolved.folderPath
                    ELSE bridge.entries[i].serveDir

\* the saves in flight when the sync of this step began
savesBeforeSync == IF SaveDone THEN Tail(rs.saves) ELSE rs.saves

\* C34: a syncFromLinkedServer whose linked entry already has the base URL,
\* folder and auth token of the settings calls no saveSettings and re-applies
\* no background; a sync whose linked id matches no entry leaves the settings
\* as they are; and after any sync a second one with the same entry would
\* change nothing.
C34_SyncWritesOnlyOnChange ==
    [][(rs'.last = "sync" /\ rs' # rs)
       => /\ entryInSync(rs'.bridge, hostBasePath, settings)
             => /\ settings' = settings
                /\ rs'.saves = savesBeforeSync
                /\ rs'.background = rs.background
          /\ ~listsEntry(rs'.bridge, settings.linkedServerEntryId)
             => /\ settings' = settings
                /\ rs'.saves = savesBeforeSync
          /\ \E again \in {syncFromLinkedServer(rs'.bridge, rs'.handler, hostBasePath,
                                                settings')} :
                /\ ~again.changed
                /\ again.settings = settings'
                /\ again.handler = rs'.handler]_vars

\* a sync found the linked entry and the settings already in agreement, with
\* nothing in flight and a background applied
C34_Witness ==
    /\ rs.pc = "plugin"
    /\ rs.last = "sync"
    /\ entryInSync(rs.bridge, hostBasePath, settings)
    /\ rs.saves = <<>>
    /\ rs.persisted = settings
    /\ rs.background # <<>>

-----------------------------------------------------------------------------
(* The plugin's life (specification SpecLifecycle): onload with its two    *)
(* awaits, the change handler, the cache warmup and onunload.  rs holds    *)
(* the plugin's fields, the handlers the bridge holds, the warmup          *)
(* callbacks the host holds and the saves in flight.                       *)

\* scheduleCacheWarmup
scheduleCacheWarmup(run) ==
    IF ~run.backgroundPicker \/ run.cacheWarmupHandle # <<>> THEN run
    ELSE IF run.requestIdle
    THEN [run EXCEPT !.cacheWarmupIsIdle = TRUE,
                     !.cacheWarmupHandle = <<1>>,
                     !.idleWarmups = @ + 1]
    ELSE [run EXCEPT !.cacheWarmupHandle = <<1>>,
                     !.timerWarmups = @ + 1]

\* clearCacheWarmup
clearCacheWarmup(run) ==
    IF run.cacheWarmupHandle = <<>> THEN run
    ELSE IF run.cacheWarmupIsIdle
    THEN [run EXCEPT !.idleWarmups = IF run.requestIdle /\ @ > 0 THEN @ - 1 ELSE @,
                     !.cancelled = <<"cancelIdleCallback">>,
                     !.cacheWarmupHandle = <<>>,
                     !.cacheWarmupIsIdle = FALSE]
    ELSE [run EXCEPT !.timerWarmups = IF @ > 0 THEN @ - 1 ELSE @,
                     !.cancelled = <<"clearTimeout">>,
                     !.cacheWarmupHandle = <<>>,
                     !.cacheWarmupIsIdle = FALSE]

\* what a syncFromLinkedServer with this outcome does to the plugin's fields:
\* the handler is registered with the bridge when there is none, and a change
\* is saved
syncOutcome(run, outcome, next) ==
    [settings |-> outcome.settings,
     changed |-> outcome.changed,
     run |-> [run EXCEPT
                 !.localServerUnsubscribe = outcome.handler,
                 !.subscribed = IF outcome.handler /\ ~run.localServerUnsubscribe
                                THEN @ + 1 ELSE @,
                 !.saves = IF outcome.changed
                           THEN saveSettings(@, outcome.settings, next)
                           ELSE @]]

\* syncFromLinkedServer up to its await, on the plugin's fields
syncOf(run, hostSettings, next) ==
    syncOutcome(run,
                syncFromLinkedServer(run.bridge, run.localServerUnsubscribe,
                                     hostBasePath, hostSettings),
                next)

\* onload after its two awaits: the background is applied, the picker made,
\* the warmup scheduled, the command and the settings tab added
finishOnload(run, hostSettings) ==
    scheduleCacheWarmup(
        [run EXCEPT !.background = getSelectedImageUrl(vaultFiles, hostBasePath,
                                                       hostSettings),
                    !.backgroundPicker = TRUE,
                    !.commands = ~run.unloaded,
                    !.onload = "loaded"])

\* onload up to `await this.loadSettings()`
Onload ==
    /\ rs.pc = "lifecycle"
    /\ rs.onload = "idle"
    /\ rs' = [rs EXCEPT !.onload = "loading", !.last = "onload"]
    /\ UNCHANGED <<settings, vaultFiles, hostBasePath, pickerVars>>

\* loadData resolves: onload goes on to syncFromLinkedServer and, when that
\* saves nothing, to its end
LoadSettingsDone ==
    /\ rs.pc = "lifecycle"
    /\ rs.onload = "loading"
    /\ \E sync \in {syncOf(rs, rs.disk, "onload")} :
          /\ settings' = sync.settings
          /\ rs' = IF sync.changed
                   THEN [sync.run EXCEPT !.onload = "saving", !.last = "load"]
                   ELSE [finishOnload(sync.run, sync.settings) EXCEPT !.last = "load"]
    /\ UNCHANGED <<vaultFiles, hostBasePath, pickerVars>>

\* the bridge's settings change: it calls the handlers it holds, and each
\* one starts a syncFromLinkedServer
BridgeNotifies(bridge) ==
    /\ rs.pc = "lifecycle"
    /\ bridge # rs.bridge
    /\ rs.subscribed > 0 => Len(rs.saves) < MaxPending
    /\ IF rs.subscribed > 0
       THEN \E sync \in {syncOf([rs EXCEPT !.bridge = bridge], settings, "apply")} :
               /\ settings' = sync.settings
               /\ rs' = [sync.run EXCEPT !.last = "notify"]
       ELSE /\ rs' = [rs EXCEPT !.bridge = bridge, !.last = "notify"]
            /\ UNCHANGED settings
    /\ UNCHANGED <<vaultFiles, hostBasePath, pickerVars>>

\* the settings tab's "Linked server entry" dropdown up to its first await
LinkedEntryChosen ==
    /\ rs.pc = "lifecycle"
    /\ rs.commands
    /\ Len(rs.saves) < MaxPending
    /\ \E value \in {<<>>} \cup {rs.bridge.entries[i].id : i \in 1..Len(rs.bridge.entries)} :
          /\ value # settings.linkedServerEntryId
          /\ settings' = [settings EXCEPT !.linkedServerEntryId = value]
          /\ rs' = [rs EXCEPT !.saves = saveSettings(@, settings', "sync"),
                              !.last = "dropdown"]
    /\ UNCHANGED <<vaultFiles, hostBasePath, pickerVars>>

\* saveData resolves and the caller goes on after its await
SaveResolves ==
    /\ rs.pc = "lifecycle"
    /\ rs.saves # <<>>
    /\ \E save \in {Head(rs.saves)} :
       \E run \in {[rs EXCEPT !.disk = save.data, !.saves = Tail(@), !.last = "saved"]} :
          CASE save.next = "onload" ->
                  /\ rs' = finishOnload(run, settings)
                  /\ UNCHANGED settings
            [] save.next = "sync" ->
                  \E sync \in {syncOf(run, settings, "apply")} :
                     /\ settings' = sync.settings
                     /\ rs' = sync.run
            [] OTHER ->
                  /\ rs' = [run EXCEPT !.background =
                                          getSelectedImageUrl(vaultFiles, hostBasePath,
                                                              settings)]
                  /\ UNCHANGED settings
    /\ UNCHANGED <<vaultFiles, hostBasePath, pickerVars>>

\* the "Open background picker" command
OpenBackgroundPicker ==
    /\ rs.pc = "lifecycle"
    /\ rs.commands
    /\ Open

\* the picker's Close button
ClosePicker ==
    /\ rs.pc = "lifecycle"
    /\ overlayOpen
    /\ Close

\* a tile callback of the picker fires
TileCallback ==
    /\ rs.pc = "lifecycle"
    /\ \E t \in 0..(MaxToken + 1) : RenderTileBatch(t)

\* the warmup callback fires: runWarmup
WarmupFires ==
    /\ rs.pc = "lifecycle"
    /\ rs.idleWarmups + rs.timerWarmups > 0
    /\ rs' = [rs EXCEPT !.idleWarmups = IF @ > 0 THEN @ - 1 ELSE @,
                        !.timerWarmups = IF rs.idleWarmups > 0 THEN @ ELSE @ - 1,
                        !.cacheWarmupHandle = <<>>,
                        !.cacheWarmupIsIdle = FALSE,
                        !.primed = rs.backgroundPicker,
                        !.last = "warmup"]
    /\ IF rs.backgroundPicker
       THEN \E cacheKey \in {getCacheKey(settings)} :
            \E entry \in {cacheEntry(cacheKey, cacheLookup(FALSE, cacheKey).result)} :
               /\ cachedKey' = entry.key
               /\ cachedItems' = entry.items
               /\ cachedError' = entry.error
       ELSE UNCHANGED <<cachedKey, cachedItems, cachedError>>
    /\ UNCHANGED <<settings, vaultFiles, hostBasePath, overlayOpen, grid, statusText,
                   itemCount, renderToken, renderQueue, idleCallbacks, lookup, passItems>>

\* onunload
Onunload ==
    /\ rs.pc = "lifecycle"
    /\ rs.onload # "idle"
    /\ ~rs.unloaded
    /\ renderToken < MaxToken
    /\ rs' = [clearCacheWarmup(rs) EXCEPT
                 !.subscribed = IF rs.localServerUnsubscribe THEN @ - 1 ELSE @,
                 !.localServerUnsubscribe = FALSE,
                 !.backgroundPicker = FALSE,
                 !.commands = FALSE,
                 !.unloaded = TRUE,
                 !.scheduledBefore = rs.idleWarmups + rs.timerWarmups,
                 !.last = "onunload"]
    /\ IF rs.backgroundPicker /\ overlayOpen
       THEN /\ renderToken' = renderToken + 1
            /\ overlayOpen' = FALSE
            /\ grid' = <<>>
            /\ statusText' = <<>>
            /\ renderQueue' = <<>>
            /\ passItems' = <<>>
       ELSE UNCHANGED <<renderToken, overlayOpen, grid, statusText, renderQueue, passItems>>
    /\ lookup' = NoStep
    /\ UNCHANGED <<itemCount, cachedKey, cachedItems, cachedError, idleCallbacks,
                   settings, vaultFiles, hostBasePath>>

\* data.json as the plugin finds it: never linked, linked with the entry's
\* values, linked with values the entry no longer has
LinkedInSync ==
    [serverBaseUrl |-> buildLocalVaultServerBaseUrl(wallpapers),
     imageFolderPath |-> <<"w">>,
     useRemoteIndex |-> FALSE,
     authToken |-> <<"t">>,
     selectedImagePath |-> artX,
     linkedServerEntryId |-> <<"e1">>]

StoredSettings ==
    {[LinkedInSync EXCEPT !.linkedServerEntryId = <<>>],
     LinkedInSync,
     [LinkedInSync EXCEPT !.authToken = <<>>]}

\* the bridge with the linked entry, without it, and removed
LifecycleBridges ==
    {bridge \in Bridges : /\ bridge.entries \in {<<>>, <<wallpapers>>}
                          /\ bridge.plugins = bridge.api
                          /\ bridge.apiVersion \in {0, 1}}

InitLifecycle ==
    /\ settings = [LinkedInSync EXCEPT !.linkedServerEntryId = <<>>]
    /\ vaultFiles = ResolveFiles
    /\ hostBasePath = <<"/", "v">>
    /\ overlayOpen = FALSE
    /\ grid = <<>>
    /\ statusText = <<>>
    /\ itemCount = 0
    /\ renderToken = 0
    /\ renderQueue = <<>>
    /\ cachedKey = <<>>
    /\ cachedItems = <<>>
    /\ cachedError = <<>>
    /\ idleCallbacks = [t \in 0..(MaxToken + 1) |-> 0]
    /\ lookup = NoStep
    /\ passItems = <<>>
    /\ \E disk \in StoredSettings, requestIdle \in BOOLEAN :
          rs = [pc |-> "lifecycle", onload |-> "idle", unloaded |-> FALSE,
                bridge |-> CHOOSE bridge \in TrustedBridges : bridge.entries = <<wallpapers>>,
                localServerUnsubscribe |-> FALSE, subscribed |-> 0,
                backgroundPicker |-> FALSE, commands |-> FALSE,
                cacheWarmupHandle |-> <<>>, cacheWarmupIsIdle |-> FALSE,
                requestIdle |-> requestIdle, idleWarmups |-> 0, timerWarmups |-> 0,
                cancelled |-> <<>>, scheduledBefore |-> 0, primed |-> FALSE,
                disk |-> disk, saves |-> <<>>, background |-> <<>>, last |-> "none"]

NextLifecycle ==
    \/ Onload
    \/ LoadSettingsDone
    \/ \E bridge \in LifecycleBridges : BridgeNotifies(bridge)
    \/ LinkedEntryChosen
    \/ SaveResolves
    \/ OpenBackgroundPicker
    \/ ClosePicker
    \/ TileCallback
    \/ WarmupFires
    \/ Onunload

SpecLifecycle == InitLifecycle /\ [][NextLifecycle]_vars

-----------------------------------------------------------------------------
(* onunload and the work that is pending when it runs.                     *)

\* the warmup callbacks the host holds
warmupsPending == rs.idleWarmups + rs.timerWarmups

\* C35: at most one warmup callback is pending, and cacheWarmupHandle is
\* non-null exactly when one is; onunload cancels the pending warmup with the
\* primitive that scheduled it and closes the picker, advancing the render
\* token when it was open; and once onunload has run no callback primes the
\* cache or appends a tile.
C35_DisposeCancelsPendingWork ==
    /\ [](/\ warmupsPending <= 1
          /\ rs.cacheWarmupHandle # <<>> <=> warmupsPending = 1)
    /\ [][/\ (~rs.unloaded /\ rs'.unloaded)
             => /\ rs'.idleWarmups + rs'.timerWarmups = 0
                /\ rs.idleWarmups > 0 => rs'.cancelled = <<"cancelIdleCallback">>
                /\ rs.timerWarmups > 0 => rs'.cancelled = <<"clearTimeout">>
                /\ ~overlayOpen'
                /\ overlayOpen => renderToken' = renderToken + 1
          /\ rs.unloaded
             => /\ cachedKey' = cachedKey
                /\ cachedItems' = cachedItems
                /\ cachedError' = cachedError
                /\ Len(grid') <= Len(grid)]_vars

\* onload and every save a handler was waiting for have finished
continuationsFinished ==
    /\ rs.onload = "loaded"
    /\ rs.saves = <<>>

\* C36: the bridge holds at most one change handler of the plugin at any
\* time, and holds none once onunload has returned and every suspended
\* continuation (onload's, a sync's, the dropdown's) has finished.
C36_HandlerSubscribedAtMostOnce ==
    /\ rs.subscribed <= 1
    /\ (rs.unloaded /\ continuationsFinished) => rs.subscribed = 0

-----------------------------------------------------------------------------
(* What close() leaves alone.                                              *)

-----------------------------------------------------------------------------
(* Choosing and clearing the background from the picker (specification     *)
(* SpecClick).  rs holds the picker's selectedPath and selectedTile, the    *)
(* CSS variable, and the host calls that are suspended at saveSettings.  A  *)
(* tile is the path it shows and the pass that made it.                     *)

\* createTile over one slice: the last tile whose path is selectedPath
\* becomes selectedTile
tilesMarked(run, batch, token) ==
    IF \E i \in 1..Len(batch) : batch[i].relativePath = run.selectedPath
    THEN [run EXCEPT !.selectedTile = <<[path |-> run.selectedPath, pass |-> token]>>]
    ELSE run

\* setSelection
setSelection(run, relativePath, tile) ==
    [run EXCEPT !.selectedTile = tile, !.selectedPath = relativePath]

\* renderGrid, lines 286-289, on selectedPath and selectedTile
OpenToSelect ==
    /\ rs.pc = "click"
    /\ renderToken < MaxToken
    /\ overlayOpen' = TRUE
    /\ renderGrid(FALSE)
    /\ rs' = [rs EXCEPT !.selectedPath = settings.selectedImagePath,
                        !.selectedTile = <<>>,
                        !.last = "open"]
    /\ UNCHANGED <<settings, vaultFiles, hostBasePath>>

RefreshToSelect ==
    /\ rs.pc = "click"
    /\ overlayOpen
    /\ renderToken < MaxToken
    /\ renderGrid(TRUE)
    /\ rs' = [rs EXCEPT !.selectedPath = settings.selectedImagePath,
                        !.selectedTile = <<>>,
                        !.last = "refresh"]
    /\ UNCHANGED <<overlayOpen, settings, vaultFiles, hostBasePath>>

\* close() of an open picker
CloseSelecting ==
    /\ rs.pc = "click"
    /\ overlayOpen
    /\ renderToken < MaxToken
    /\ renderToken' = renderToken + 1
    /\ overlayOpen' = FALSE
    /\ grid' = <<>>
    /\ statusText' = <<>>
    /\ renderQueue' = <<>>
    /\ passItems' = <<>>
    /\ lookup' = NoStep
    /\ rs' = [rs EXCEPT !.selectedTile = <<>>, !.last = "close"]
    /\ UNCHANGED <<itemCount, cachedKey, cachedItems, cachedError, idleCallbacks,
                   settings, vaultFiles, hostBasePath>>

\* renderTileBatch with createTile's mark of the selected tile
SelectableTileBatch(scheduledAt) ==
    /\ rs.pc = "click"
    /\ idleCallbacks[scheduledAt] > 0
    /\ LET pending == [idleCallbacks EXCEPT ![scheduledAt] = @ - 1]
       IN  IF ~sliceRuns
           THEN /\ idleCallbacks' = pending
                /\ rs' = [rs EXCEPT !.last = "slice"]
                /\ UNCHANGED <<grid, statusText, renderQueue>>
           ELSE LET queue == renderQueue[1]
                    batch == batchOf(queue)
                    index == queue.index + Len(batch)
                    more == index < Len(queue.items)
                    next == <<[queue EXCEPT !.index = index]>>
                IN  /\ grid' = grid \o [i \in 1..Len(batch) |-> batch[i].relativePath]
                    /\ rs' = [tilesMarked(rs, batch, renderToken) EXCEPT !.last = "slice"]
                    /\ IF more
                       THEN /\ statusText' = <<"Loading ", ToString(index), " / ",
                                               ToString(Len(queue.items)), "...">>
                            /\ renderQueue' = next
                            /\ idleCallbacks' = scheduleTileRender(pending, next, renderToken)
                       ELSE /\ statusText' = <<>>
                            /\ renderQueue' = <<>>
                            /\ idleCallbacks' = pending
    /\ lookup' = NoStep
    /\ UNCHANGED <<overlayOpen, itemCount, renderToken, cachedKey, cachedItems,
                   cachedError, passItems, settings, vaultFiles, hostBasePath>>

\* handleGridClick on a tile of the grid: handleTileSelection and
\* setBackgroundByRelativePath up to `await this.saveSettings()`
TileClick ==
    /\ rs.pc = "click"
    /\ overlayOpen
    /\ Len(rs.calls) <= MaxPending
    /\ \E i \in 1..Len(grid) :
          /\ settings' = [settings EXCEPT !.selectedImagePath = grid[i]]
          /\ rs' = [rs EXCEPT !.calls = Append(@, [kind |-> "set", path |-> grid[i],
                                                   pass |-> renderToken]),
                              !.last = "click"]
    /\ UNCHANGED <<vaultFiles, hostBasePath, pickerVars>>

\* the Clear button: clearBackgroundSelection up to `await this.saveSettings()`
ClearClick ==
    /\ rs.pc = "click"
    /\ overlayOpen
    /\ Len(rs.calls) <= MaxPending
    /\ settings' = [settings EXCEPT !.selectedImagePath = <<>>]
    /\ rs' = [rs EXCEPT !.calls = Append(@, [kind |-> "clear", path |-> <<>>,
                                             pass |-> renderToken]),
                        !.last = "clear"]
    /\ UNCHANGED <<vaultFiles, hostBasePath, pickerVars>>

\* the sequence without its i-th element
without(seq, i) == SubSeq(seq, 1, i - 1) \o SubSeq(seq, i + 1, Len(seq))

\* the saveSettings of a setBackgroundByRelativePath resolves: the background
\* is applied, then handleTileSelection sets the selection and closes
SelectionSaved(i) ==
    /\ rs.pc = "click"
    /\ i <= Len(rs.calls)
    /\ rs.calls[i].kind = "set"
    /\ \E call \in {rs.calls[i]} :
       \E tile \in {[path |-> call.path, pass |-> call.pass]} :
       \E run \in {setSelection(rs, call.path, <<tile>>)} :
          rs' = [run EXCEPT
                    !.calls = without(@, i),
                    !.background = getSelectedImageUrl(vaultFiles, hostBasePath, settings),
                    !.selectedTile = IF overlayOpen THEN <<>> ELSE @,
                    !.done = [pass |-> call.pass, marked |-> tile],
                    !.last = "selected"]
    /\ IF overlayOpen
       THEN /\ renderToken' = renderToken + 1
            /\ overlayOpen' = FALSE
            /\ grid' = <<>>
            /\ statusText' = <<>>
            /\ renderQueue' = <<>>
            /\ passItems' = <<>>
       ELSE UNCHANGED <<renderToken, overlayOpen, grid, statusText, renderQueue, passItems>>
    /\ lookup' = NoStep
    /\ UNCHANGED <<itemCount, cachedKey, cachedItems, cachedError, idleCallbacks,
                   settings, vaultFiles, hostBasePath>>

\* the saveSettings of a clearBackgroundSelection resolves: the CSS variable
\* is removed, then the Clear handler drops the selection
ClearSaved(i) ==
    /\ rs.pc = "click"
    /\ i <= Len(rs.calls)
    /\ rs.calls[i].kind = "clear"
    /\ rs' = [setSelection(rs, <<>>, <<>>) EXCEPT
                 !.calls = without(@, i),
                 !.background = <<>>,
                 !.last = "cleared"]
    /\ UNCHANGED <<settings, vaultFiles, hostBasePath, pickerVars>>

InitClick ==
    /\ settings = [serverBaseUrl |-> <<"http:", "/", "/", "127.0.0.1", ":", "3000">>,
                   imageFolderPath |-> <<"w">>,
                   useRemoteIndex |-> FALSE,
                   authToken |-> <<>>,
                   selectedImagePath |-> <<>>,
                   linkedServerEntryId |-> <<>>]
    /\ vaultFiles = ResolveFiles
    /\ hostBasePath = <<"/", "v">>
    /\ overlayOpen = FALSE
    /\ grid = <<>>
    /\ statusText = <<>>
    /\ itemCount = 0
    /\ renderToken = 0
    /\ renderQueue = <<>>
    /\ cachedKey = <<>>
    /\ cachedItems = <<>>
    /\ cachedError = <<>>
    /\ idleCallbacks = [t \in 0..(MaxToken + 1) |-> 0]
    /\ lookup = NoStep
    /\ passItems = <<>>
    /\ rs = [pc |-> "click", selectedPath |-> <<>>, selectedTile |-> <<>>, calls |-> <<>>,
             background |-> <<>>, done |-> [pass |-> 0, marked |-> [path |-> <<>>, pass |-> 0]],
             last |-> "none"]

NextClick ==
    \/ OpenToSelect
    \/ RefreshToSelect
    \/ CloseSelecting
    \/ \E t \in 0..(MaxToken + 1) : SelectableTileBatch(t)
    \/ TileClick
    \/ ClearClick
    \/ \E i \in 1..(MaxPending + 1) : SelectionSaved(i)
    \/ \E i \in 1..(MaxPending + 1) : ClearSaved(i)

SpecClick == InitClick /\ [][NextClick]_vars

\* C38: when the setBackgroundByRelativePath of a click resolves after the
\* picker was closed and reopened, or refreshed, since the click, the
\* completion does not close the picker that is open now and marks no tile
\* of the pass the click was made in, which is no longer in the grid.
C38_SelectionClosesOwnSession ==
    [][(rs'.last = "selected" /\ rs'.calls # rs.calls /\ rs'.done.pass # renderToken)
       => /\ overlayOpen' = overlayOpen
          /\ rs'.selectedTile # <<rs'.done.marked>>]_vars

\* C39: once no setBackgroundByRelativePath and no clearBackgroundSelection
\* is in flight, the CSS variable is set exactly when getSelectedImageUrl is
\* non-empty for the stored selectedImagePath, and holds that URL.
C39_BackgroundMatchesSelection ==
    rs.calls = <<>> => rs.background = getSelectedImageUrl(vaultFiles, hostBasePath, settings)

====
